---- MODULE Spec2Model ----
(***************************************************************************)
(* Verification model of the image2video rendering pipeline               *)
(* (src/src/services/video_service.py, transition_service.py,             *)
(* animation_service.py, src/src/controllers/video_controller.py).        *)
(*                                                                         *)
(* Times are whole seconds.  Scales and position offsets are hundredths    *)
(* (100 = 1.0, 5 = 0.05); curve values are hundredths as well.             *)
(*                                                                         *)
(* The module holds one specification per component:                       *)
(*   SpecClip   VideoService.create_clip / preview_clip                    *)
(*   SpecTrans  TransitionService.apply_transitions_to_clips /             *)
(*              create_composite_transition and the blended clips' frames  *)
(*   SpecVideo  VideoService.create_video                                  *)
(*   SpecFrame  VideoService.apply_opencv_animation.process_frame and      *)
(*              AnimationService.apply_animation with its make_frame       *)
(*   SpecCtl    VideoController's clip cache and generate_video            *)
(*   SpecBlinds TransitionService._blinds_effect, one frame row at a time  *)
(*   SpecApp    create_video, create_composite_transition and the          *)
(*              controller called side by side                             *)
(* Each specification drives its own variables and leaves the others at    *)
(* their initial value.                                                    *)
(***************************************************************************)
EXTENDS Integers, Sequences, FiniteSets, TLC

VARIABLES
    item,        \* SpecClip: the item dict handed to create_clip / preview_clip
    clipOp,      \* SpecClip: which operation has run ("none" before the call)
    clipResult,  \* SpecClip: what the operation returned or raised
    op,                     \* transition service / create_video: the call and its stage
    clips,                  \* the rendered clips handed to the transition service
    transition,             \* transition_name: the global transition
    transition_duration,    \* the transition duration
    use_custom_transitions, \* the use_custom_transitions flag
    custom_transitions,     \* the caller's per-boundary list (a mutable list)
    result_clips,           \* the list the transition service built
    drawn,                  \* per boundary, what random.choice returned ("" when not called)
    raised,                 \* the exception the call raised ("" when none)
    items,          \* create_video: the items argument
    working_clips,  \* create_video: the local list `clips` (closed at the end)
    final_clip,     \* create_video: the clip handed to write_videofile
    closed,         \* create_video: the clips close() was called on
    output_dir_exists, \* create_video: whether the directory of output_path exists
    video_resolution,  \* create_video: advanced_options' video_resolution
    clip_sizes,        \* create_video: the frame size (w, h) of each clip made
    animation_params,  \* apply_opencv_animation: the animation dict
    anim_duration,     \* apply_opencv_animation: the duration argument
    frame,             \* process_frame: what the last call computed and applied
    preset_name,       \* apply_animation: the preset name passed ("" when a dict is)
    anim_clip,         \* apply_animation: the clip it returned
    made_frame,        \* make_frame: what the last call computed
    generated_clips,  \* VideoController.generated_clips: image path -> clip path
    disk,             \* the clip files of the video directory
    item_animation,   \* ImageItem.animation of each item
    image_exists,     \* whether each item's image file exists
    calls,            \* the number of controller calls made so far
    last_call,        \* the last controller call and its outcome
    last_returned,    \* per item, what generate_clip last returned
    last_video_path,  \* VideoController.last_video_path ("" for None)
    blinds_clip,   \* SpecBlinds: the clip _blinds_effect returned
    blinds_h,      \* SpecBlinds: the number of rows of the clips' frames
    blinds_frame   \* SpecBlinds: the row of the frame last asked for

clipVars == <<item, clipOp, clipResult>>

transVars == <<op, clips, transition, transition_duration, use_custom_transitions,
               custom_transitions, result_clips, drawn, raised>>

videoVars == <<items, working_clips, final_clip, closed, output_dir_exists,
               video_resolution, clip_sizes>>

frameVars == <<animation_params, anim_duration, frame, preset_name, anim_clip, made_frame>>

ctlVars == <<generated_clips, disk, item_animation, image_exists, calls, last_call,
             last_returned, last_video_path>>

blindsVars == <<blinds_clip, blinds_h, blinds_frame>>

vars == <<clipVars, transVars, videoVars, frameVars, ctlVars, blindsVars>>

\* abs, max and min of the source
Abs(x) == IF x < 0 THEN 0 - x ELSE x

Max2(x, y) == IF x >= y THEN x ELSE y

Min2(x, y) == IF x <= y THEN x ELSE y

(***************************************************************************)
(* VideoService.create_clip                                               *)
(***************************************************************************)

\* self.default_duration (seconds)
default_duration == 5

\* Lengths of the audio files that may sit on disk (0: an empty track).
AudioLengths == {0, 3, 6}

\* Duration hints an item may carry.
DurationHints == {0, 3, 4}

\* The item dicts create_clip is called with.  audio_path is "" (None / not
\* given), "missing" (a path that does not exist) or "present" (a file of
\* length audio_len).  has_duration tells whether the dict has a "duration" key.
\* animation is "" (None) or the name of a preset ("push" stands for the preset
\* written with the Chinese word for it in preset_animations).
Items ==
    { [image_exists |-> ie, audio_path |-> ap, audio_len |-> al,
       has_duration |-> hd, duration |-> du, animation |-> an] :
        ie \in BOOLEAN, ap \in {"", "missing", "present"}, al \in AudioLengths,
        hd \in BOOLEAN, du \in DurationHints, an \in {"", "push"} }

\* The inputs are normalised: fields that cannot be read are fixed.
WellFormedItem(it) ==
    /\ (it.audio_path # "present" => it.audio_len = 0)
    /\ (~it.has_duration => it.duration = 0)

\* os.path.exists(audio_path) for a given audio_path
AudioFileExists(it) == it.audio_path = "present"

\* audio_clip is set iff audio_path is truthy and the file exists
AudioClipLoaded(it) == it.audio_path # "" /\ AudioFileExists(it)

\* audio_duration: 0 unless the audio clip was loaded
AudioDuration(it) == IF AudioClipLoaded(it) THEN it.audio_len ELSE 0

\* item.get("duration", self.default_duration)
DurationHintOf(it) == IF it.has_duration THEN it.duration ELSE default_duration

ResolveDurationHintFirst(it) ==
    IF it.has_duration THEN it.duration
    ELSE IF AudioDuration(it) > 0 THEN AudioDuration(it) ELSE default_duration

\* the clip's duration: audio duration when > 0, else the hint, else the default
ResolveDuration(it) ==
    IF AudioDuration(it) > 0 THEN AudioDuration(it) ELSE DurationHintOf(it)

NoClip == [duration |-> 0, has_audio |-> FALSE, audio_duration |-> 0, animated |-> FALSE]

CreateClipRaisesOnMissingAudio(it) ==
    IF ~it.image_exists \/ (it.audio_path # "" /\ ~AudioFileExists(it))
    THEN [raised |-> "FileNotFoundError", clip |-> NoClip]
    ELSE [raised |-> "",
          clip |-> [duration |-> ResolveDuration(it),
                    has_audio |-> AudioClipLoaded(it),
                    audio_duration |-> AudioDuration(it),
                    animated |-> it.animation # ""]]

\* create_clip: raises FileNotFoundError when the image is missing; otherwise
\* an ImageClip of the resolved duration, animated when the item names an
\* animation, carrying the audio clip when one was loaded.
CreateClip(it) ==
    IF ~it.image_exists
    THEN [raised |-> "FileNotFoundError", clip |-> NoClip]
    ELSE [raised |-> "",
          clip |-> [duration |-> ResolveDuration(it),
                    has_audio |-> AudioClipLoaded(it),
                    audio_duration |-> AudioDuration(it),
                    animated |-> it.animation # ""]]

\* preview_clip: one create_clip, then write_videofile; any exception is
\* re-raised as a plain Exception carrying the original message.
PreviewClip(it) ==
    LET r == CreateClip(it)
    IN  IF r.raised # ""
        THEN [raised |-> "Exception", cause |-> r.raised, clip |-> NoClip,
              create_clip_calls |-> 1, written |-> FALSE]
        ELSE [raised |-> "", cause |-> "", clip |-> r.clip,
              create_clip_calls |-> 1, written |-> TRUE]

NoResult == [raised |-> "", cause |-> "", clip |-> NoClip,
             create_clip_calls |-> 0, written |-> FALSE]

ClipInit ==
    /\ item \in {it \in Items : WellFormedItem(it)}
    /\ clipOp = "none"
    /\ clipResult = NoResult

\* a caller invokes create_clip(item)
CreateClipCall ==
    /\ clipOp = "none"
    /\ clipOp' = "create_clip"
    /\ LET r == CreateClip(item)
       IN  clipResult' = [raised |-> r.raised, cause |-> r.raised, clip |-> r.clip,
                          create_clip_calls |-> 1, written |-> FALSE]
    /\ UNCHANGED <<item, transVars, videoVars, frameVars, ctlVars, blindsVars>>

\* a caller invokes preview_clip(item, output_filename)
PreviewClipCall ==
    /\ clipOp = "none"
    /\ clipOp' = "preview_clip"
    /\ clipResult' = PreviewClip(item)
    /\ UNCHANGED <<item, transVars, videoVars, frameVars, ctlVars, blindsVars>>

ClipNext == CreateClipCall \/ PreviewClipCall

\* the state of these variables under the other specifications
ClipIdle ==
    /\ item = [image_exists |-> TRUE, audio_path |-> "", audio_len |-> 0,
               has_duration |-> FALSE, duration |-> 0, animation |-> ""]
    /\ clipOp = "none"
    /\ clipResult = NoResult

(***************************************************************************)
(* TransitionService                                                       *)
(*                                                                         *)
(* The keys of self.transitions are Chinese words in the source; here they *)
(* are written in English:                                                 *)
(*   "none" (wu), "crossfade" (dan-ru-dan-chu), "slide-left/right/top/     *)
(*   bottom" (hua-dong), "zoom-fade", "rotate-fade", "blinds",             *)
(*   "warp-dissolve", "flash", "random" (sui-ji).                          *)
(* A table value is "none-marker" (the string "none" stored under the key  *)
(* "none"), "None" (stored under "random", and what dict.get gives for an  *)
(* unknown key) or a callable, named here by its key.                      *)
(***************************************************************************)

\* the largest number of clips stitched in one call
MaxClips == 3

\* the ten transition functions of the table
TransitionFunctions ==
    {"crossfade", "slide-left", "slide-right", "slide-top", "slide-bottom",
     "zoom-fade", "rotate-fade", "blinds", "warp-dissolve", "flash"}

\* self.transitions.keys()
TransitionKeys == {"none", "random"} \cup TransitionFunctions

\* self.transitions.get(name)
TransitionsGet(name) ==
    IF name = "none" THEN "none-marker"
    ELSE IF name \in TransitionFunctions THEN name
    ELSE "None"

\* callable(trans_func)
Callable(f) == f \notin {"None", "none-marker"}

\* the options random.choice draws from in get_transition_function
RandomOptions == TransitionKeys \ {"none", "random"}

\* get_transition_function(name), draw being what random.choice returns
GetTransitionFunction(name, draw) ==
    IF name = "random" THEN TransitionsGet(draw)
    ELSE IF name \in TransitionKeys THEN TransitionsGet(name)
    ELSE "_no_transition"

\* The rendered clips: clip i lasts 4 s and is silent, or lasts 3 s and carries
\* audio, alternately; phase tells which kind comes first.  audio_of names the
\* clip whose audio track the clip carries (0: no audio).
RenderedClip(i, phase) ==
    IF (i + phase) % 2 = 1
    THEN [kind |-> "image", a |-> 0, b |-> i, d |-> 0, duration |-> 4,
          has_audio |-> FALSE, audio_duration |-> 0, audio_of |-> 0]
    ELSE [kind |-> "image", a |-> 0, b |-> i, d |-> 0, duration |-> 3,
          has_audio |-> TRUE, audio_duration |-> 3, audio_of |-> i]

ClipLists == { [i \in 1..n |-> RenderedClip(i, phase)] : n \in 0..MaxClips, phase \in {0, 1} }

\* transition durations: shorter and longer than the clips
TransitionDurations == {1, 2, 5}

\* the transition names callers pass: table keys and one unknown name
TransitionNames == {"none", "random", "crossfade", "flash", "nonexistent"}

RECURSIVE SeqsUpTo(_, _)
\* the sequences over S of length at most n
SeqsUpTo(S, n) ==
    IF n <= 0 THEN {<<>>}
    ELSE LET shorter == SeqsUpTo(S, n - 1)
         IN  shorter \cup {Append(s, x) : s \in {q \in shorter : Len(q) = n - 1}, x \in S}

SampleTimeAFromStart(clip1_duration, duration, t) == t

\* the time at which a transition samples clip1: clip1.duration - duration + t
SampleTimeA(clip1_duration, duration, t) == clip1_duration - duration + t

\* clip.get_frame(t) of a rendered (image) clip
ImageFrame(i, t) ==
    [kind |-> "image", a |-> 0, ta |-> 0, b |-> i, tb |-> t, qnum |-> 0, qden |-> 1]

TransitionClipOfClip1(kind, cs, i, d) ==
    [kind |-> kind, a |-> i - 1, b |-> i, d |-> d,
     duration |-> cs[i - 1].duration, has_audio |-> cs[i - 1].has_audio,
     audio_duration |-> cs[i - 1].audio_duration, audio_of |-> cs[i - 1].audio_of]

\* The VideoClip a transition function returns: its make_frame closure keeps
\* clip1 (index a), clip2 (index b) and duration (d); its duration is
\* clip2.duration and its audio is clip2.audio.
TransitionClip(kind, cs, i, d) ==
    [kind |-> kind, a |-> i - 1, b |-> i, d |-> d,
     duration |-> cs[i].duration, has_audio |-> cs[i].has_audio,
     audio_duration |-> cs[i].audio_duration, audio_of |-> cs[i].audio_of]

\* one of the ten transition functions, or _no_transition (which returns clip2)
CallTransition(f, cs, i, d) ==
    IF f = "_no_transition" THEN cs[i] ELSE TransitionClip(f, cs, i, d)

\* c.get_frame(t): the *_effect closures.  Inside the window (t < duration) the
\* frame combines clip1 at clip1.duration - duration + t with clip2 at t, at
\* progress t / duration; afterwards it is clip2.get_frame(t).
GetFrame(cs, c, t) ==
    IF c.kind = "image" THEN ImageFrame(c.b, t)
    ELSE IF t < c.d
         THEN [kind |-> c.kind, a |-> c.a,
               ta |-> SampleTimeA(cs[c.a].duration, c.d, t),
               b |-> c.b, tb |-> t, qnum |-> t, qden |-> c.d]
         ELSE ImageFrame(c.b, t)

\* The value of one pixel of rendered clip i's frame at time t (0..255); the
\* clips differ from each other and, being animated, from frame to frame.
Pixel(i, t) == (40 * i + 7 * t) % 256

AddWeightedSwapped(frame1, frame2, t, duration) ==
    (2 * (frame1 * t + frame2 * (duration - t)) + duration) \div (2 * duration)

\* cv2.addWeighted(frame1, 1 - progress, frame2, progress, 0) with
\* progress = t / duration: the weighted sum, rounded to the nearest level
AddWeighted(frame1, frame2, t, duration) ==
    (2 * (frame1 * (duration - t) + frame2 * t) + duration) \div (2 * duration)

\* crossfade_effect(get_frame, t) of the clip _crossfade returned for boundary
\* c.b: the pixel of its frame at t
CrossfadeEffect(cs, c, t) ==
    IF t < c.d
    THEN AddWeighted(Pixel(c.a, SampleTimeA(cs[c.a].duration, c.d, t)), Pixel(c.b, t),
                     t, c.d)
    ELSE Pixel(c.b, t)

\* rot_mat = cv2.getRotationMatrix2D(center, angle, progress) of rotate_effect
\* with angle = 90 * (1 - progress): the rotation about the frame's centre by
\* angle / den degrees combined with the uniform scaling by scale / den
rot_mat(t, duration) ==
    [angle |-> 90 * (duration - t), scale |-> t, den |-> duration]

RotateEffectUnitScale(cs, c, t) ==
    IF t < c.d
    THEN [blended |-> TRUE, rot_mat |-> [rot_mat(t, c.d) EXCEPT !.scale = c.d],
          centre |-> AddWeighted(Pixel(c.a, SampleTimeA(cs[c.a].duration, c.d, t)),
                                 Pixel(c.b, t), t, c.d)]
    ELSE [blended |-> FALSE, rot_mat |-> rot_mat(c.d, c.d), centre |-> Pixel(c.b, t)]

\* rotate_effect(get_frame, t) of the clip _rotate_fade returned: the matrix
\* frame2 is warped by (the output keeps frame2's size (w, h)) and the pixel
\* at the centre of the blended frame, which the warp leaves in place
RotateEffect(cs, c, t) ==
    IF t < c.d
    THEN [blended |-> TRUE, rot_mat |-> rot_mat(t, c.d),
          centre |-> AddWeighted(Pixel(c.a, SampleTimeA(cs[c.a].duration, c.d, t)),
                                 Pixel(c.b, t), t, c.d)]
    ELSE [blended |-> FALSE, rot_mat |-> rot_mat(c.d, c.d), centre |-> Pixel(c.b, t)]

\* num_blinds of blinds_effect
num_blinds == 20

\* the largest frame height (rows) the blinds are laid over
MaxFrameHeight == 41

\* blind_height = h // num_blinds
BlindHeight(h) == h \div num_blinds

\* does row y lie in the slice y_start:y_end of blind i, in a frame of h rows
InBlind(h, i, y) ==
    /\ y >= 0 /\ y < h
    /\ y >= i * BlindHeight(h)
    /\ y < Min2((i + 1) * BlindHeight(h), h)

BlindProgressSingleSpeed(qnum, qden, i) ==
    Min2(num_blinds * qden, num_blinds * qnum - i * qden)

\* blind_progress = min(1, progress * 2 - i / num_blinds) at progress
\* qnum / qden, in units of 1 / (num_blinds * qden)
BlindProgress(qnum, qden, i) ==
    Min2(num_blinds * qden, 2 * num_blinds * qnum - i * qden)

\* the weight of frame2 in row y of the frame blinds_effect returns at progress
\* qnum / qden, in units of 1 / (num_blinds * qden): the blind_progress of the
\* blind the row lies in when that is positive, else 0 (the row is frame1's)
BlindsRowWeight(h, y, qnum, qden) ==
    LET blinds == { i \in 0..(num_blinds - 1) :
                        InBlind(h, i, y) /\ BlindProgress(qnum, qden, i) > 0 }
    IN  IF blinds = {} THEN 0
        ELSE BlindProgress(qnum, qden, CHOOSE i \in blinds : TRUE)

\* blinds_effect(get_frame, t) of the clip _blinds_effect returned: the pixel
\* in row y of its frame of h rows
BlindsEffect(cs, c, t, h, y) ==
    IF t < c.d
    THEN AddWeighted(Pixel(c.a, SampleTimeA(cs[c.a].duration, c.d, t)), Pixel(c.b, t),
                     BlindsRowWeight(h, y, t, c.d), num_blinds * c.d)
    ELSE Pixel(c.b, t)

FlashWhiteIntensityRamp(qnum, qden) == qnum

\* white_intensity of flash_effect at progress qnum / qden, in units of
\* 1 / qden: progress * 2 before the middle, 2 - progress * 2 from it on
FlashWhiteIntensity(qnum, qden) ==
    IF 2 * qnum < qden THEN 2 * qnum ELSE 2 * qden - 2 * qnum

\* the frame flash_effect blends at progress qnum / qden: frame1 with white
\* before the middle, frame2 with white from it on
FlashFrame(frame1, frame2, qnum, qden) ==
    AddWeighted(IF 2 * qnum < qden THEN frame1 ELSE frame2, 255,
                FlashWhiteIntensity(qnum, qden), qden)

\* flash_effect(get_frame, t) of the clip _flash_transition returned
FlashEffect(cs, c, t) ==
    IF t < c.d
    THEN FlashFrame(Pixel(c.a, SampleTimeA(cs[c.a].duration, c.d, t)), Pixel(c.b, t),
                    t, c.d)
    ELSE Pixel(c.b, t)

\* custom_transitions after the extend of apply_transitions_to_clips
ExtendedCustom(cs, name, custom) ==
    IF Len(custom) < Len(cs) - 1
    THEN custom \o [k \in 1..(Len(cs) - 1 - Len(custom)) |-> name]
    ELSE custom

\* does apply_transitions_to_clips call get_transition_function at boundary i
\* when the boundary's name is name
AppliesRandom(name) == name # "none" /\ TransitionsGet(name) # "none-marker" /\ name = "random"

\* the clip apply_transitions_to_clips leaves at index i for a boundary named
\* name: the blended clip when the function found is callable, else clips[i]
AppliedClip(name, cs, i, d, draw) ==
    IF name # "none" /\ TransitionsGet(name) # "none-marker"
    THEN LET trans_func == IF name = "random"
                           THEN GetTransitionFunction(name, draw)
                           ELSE TransitionsGet(name)
         IN  IF Callable(trans_func) THEN CallTransition(trans_func, cs, i, d) ELSE cs[i]
    ELSE cs[i]

\* the name apply_transitions_to_clips uses at boundary i (between clips i-1, i)
BoundaryName(cs, name, useCustom, custom, i) ==
    IF useCustom /\ custom # <<>>
    THEN ExtendedCustom(cs, name, custom)[i - 1]
    ELSE name

\* apply_transitions_to_clips(clips, transition_name, transition_duration,
\* use_custom_transitions, custom_transitions); draws[i] is what random.choice
\* returns at boundary i.  Gives the returned list, the caller's custom list
\* after the call and the draws made.
ApplyTransitionsToClips(cs, name, d, useCustom, custom, draws) ==
    IF Len(cs) < 2
    THEN [result |-> cs, custom |-> custom, drawn |-> [i \in 1..Len(cs) |-> ""]]
    ELSE [result |-> [i \in 1..Len(cs) |->
                        IF i = 1 THEN cs[1]
                        ELSE AppliedClip(BoundaryName(cs, name, useCustom, custom, i),
                                         cs, i, d, draws[i])],
          custom |-> IF useCustom /\ custom # <<>>
                     THEN ExtendedCustom(cs, name, custom) ELSE custom,
          drawn |-> [i \in 1..Len(cs) |->
                        IF i > 1 /\ AppliesRandom(BoundaryName(cs, name, useCustom, custom, i))
                        THEN draws[i] ELSE ""]]

CompositeNameGlobal(name, custom, i) == name

\* the name create_composite_transition uses at boundary i
CompositeName(name, custom, i) ==
    IF custom # <<>> /\ i - 1 <= Len(custom)
    THEN custom[i - 1] ELSE name

CompositeClipAlwaysBlends(name, cs, i, d) == CallTransition("crossfade", cs, i, d)

\* the clip create_composite_transition appends for boundary i: clips[i] for
\* "none"; else the table's function for the name when callable, else _crossfade
\* (the function drawn for "random" is assigned to trans_func and not used)
CompositeClip(name, cs, i, d) ==
    IF name = "none" \/ TransitionsGet(name) = "none-marker"
    THEN cs[i]
    ELSE LET transition_func == TransitionsGet(name)
         IN  IF Callable(transition_func)
             THEN CallTransition(transition_func, cs, i, d)
             ELSE CallTransition("crossfade", cs, i, d)

\* create_composite_transition(clips, transition_name, duration,
\* custom_transitions): the final_clips list it concatenates
CreateCompositeTransition(cs, name, d, custom, draws) ==
    IF Len(cs) = 0
    THEN [raised |-> "ValueError", result |-> <<>>, drawn |-> <<>>]
    ELSE [raised |-> "",
          result |-> [i \in 1..Len(cs) |->
                        IF i = 1 THEN cs[1]
                        ELSE CompositeClip(CompositeName(name, custom, i), cs, i, d)],
          drawn |-> [i \in 1..Len(cs) |->
                        IF i > 1 /\ CompositeName(name, custom, i) = "random"
                        THEN draws[i] ELSE ""]]

RECURSIVE SumDurations(_)
\* sum(clip.duration for clip in cs)
SumDurations(cs) ==
    IF cs = <<>> THEN 0 ELSE cs[1].duration + SumDurations(Tail(cs))

\* concatenate_videoclips(cs, method="compose").duration: the clips are played
\* one after the other
ConcatDuration(cs) == SumDurations(cs)

RECURSIVE DrawSeqs(_, _)
\* the outcomes of random.choice over the boundaries where it is called:
\* needs[i] tells whether boundary i draws
DrawSeqs(needs, n) ==
    IF n = 0 THEN {<<>>}
    ELSE {Append(s, x) : s \in DrawSeqs(needs, n - 1),
                         x \in IF needs[n] THEN RandomOptions ELSE {""}}

TransInit ==
    /\ op = "none"
    /\ clips \in ClipLists
    /\ transition \in TransitionNames
    /\ transition_duration \in TransitionDurations
    /\ use_custom_transitions \in BOOLEAN
    /\ custom_transitions \in SeqsUpTo(TransitionNames, MaxClips - 1)
    /\ (~use_custom_transitions => custom_transitions = <<>>)
    /\ result_clips = <<>>
    /\ drawn = <<>>
    /\ raised = ""

\* a caller invokes apply_transitions_to_clips
ApplyTransitionsCall ==
    /\ op = "none"
    /\ op' = "apply_transitions_to_clips"
    /\ \E draws \in DrawSeqs([i \in 1..Len(clips) |->
                i > 1 /\ AppliesRandom(BoundaryName(clips, transition,
                            use_custom_transitions, custom_transitions, i))], Len(clips)) :
          LET r == ApplyTransitionsToClips(clips, transition, transition_duration,
                       use_custom_transitions, custom_transitions, draws)
          IN  /\ result_clips' = r.result
              /\ custom_transitions' = r.custom
              /\ drawn' = r.drawn
    /\ raised' = ""
    /\ UNCHANGED <<clips, transition, transition_duration, use_custom_transitions>>
    /\ UNCHANGED <<clipVars, videoVars, frameVars, ctlVars, blindsVars>>

\* a caller invokes create_composite_transition
CompositeTransitionCall ==
    /\ op = "none"
    /\ op' = "create_composite_transition"
    /\ \E draws \in DrawSeqs([i \in 1..Len(clips) |->
                i > 1 /\ CompositeName(transition, custom_transitions, i) = "random"],
                Len(clips)) :
          LET r == CreateCompositeTransition(clips, transition, transition_duration,
                       custom_transitions, draws)
          IN  /\ result_clips' = r.result
              /\ drawn' = r.drawn
              /\ raised' = r.raised
    /\ UNCHANGED <<clips, transition, transition_duration, use_custom_transitions,
                   custom_transitions>>
    /\ UNCHANGED <<clipVars, videoVars, frameVars, ctlVars, blindsVars>>

TransNext == ApplyTransitionsCall \/ CompositeTransitionCall

\* the state of these variables under the other specifications
TransIdle ==
    /\ op = "none"
    /\ clips = <<>>
    /\ transition = "crossfade"
    /\ transition_duration = 1
    /\ use_custom_transitions = FALSE
    /\ custom_transitions = <<>>
    /\ result_clips = <<>>
    /\ drawn = <<>>
    /\ raised = ""

(***************************************************************************)
(* VideoService.create_video                                               *)
(*                                                                         *)
(* op runs through "none", "rendered" (the clips are created), "stitched"  *)
(* (transitions, concatenation and padding are done) and "written" or      *)
(* "failed".  clips holds original_clips, working_clips the local list     *)
(* `clips`, result_clips the list that was concatenated into final_clip.   *)
(***************************************************************************)

\* the item kinds of a render: a silent image shown 4 s, an image with a 6 s
\* narration and a 3 s hint, an image with an empty audio track and a 3 s hint,
\* and an item whose image file is missing
VideoItem(k) ==
    CASE k = 0 -> [image_exists |-> TRUE, audio_path |-> "", audio_len |-> 0,
                   has_duration |-> TRUE, duration |-> 4, animation |-> "",
                   image_size |-> <<8, 6>>]
      [] k = 1 -> [image_exists |-> TRUE, audio_path |-> "present", audio_len |-> 6,
                   has_duration |-> TRUE, duration |-> 3, animation |-> "push",
                   image_size |-> <<4, 4>>]
      [] k = 2 -> [image_exists |-> TRUE, audio_path |-> "present", audio_len |-> 0,
                   has_duration |-> TRUE, duration |-> 3, animation |-> "",
                   image_size |-> <<8, 6>>]
      [] OTHER -> [image_exists |-> FALSE, audio_path |-> "", audio_len |-> 0,
                   has_duration |-> TRUE, duration |-> 3, animation |-> "",
                   image_size |-> <<4, 4>>]

\* the item lists: the kinds in rotation from any starting kind, and lists
\* without the missing image
ItemLists ==
    { [i \in 1..n |-> VideoItem((i + v) % 4)] : n \in 0..MaxClips, v \in 0..3 }
    \cup { [i \in 1..n |-> VideoItem((i + v) % 3)] : n \in 0..MaxClips, v \in 0..2 }

\* the transition argument of create_video: a name, or "" (falsy)
VideoTransitions == TransitionNames \cup {""}

\* the clip create_clip returned for items[i], as the transition service sees it
ClipOfItem(its, i) ==
    LET c == CreateClip(its[i]).clip
    IN  [kind |-> "image", a |-> 0, b |-> i, d |-> 0, duration |-> c.duration,
         has_audio |-> c.has_audio, audio_duration |-> c.audio_duration,
         audio_of |-> IF c.has_audio THEN i ELSE 0]

\* the index of the first item whose create_clip raises, 0 when none does
FirstFailing(its) ==
    IF \E i \in DOMAIN its : CreateClip(its[i]).raised # ""
    THEN CHOOSE i \in DOMAIN its :
            /\ CreateClip(its[i]).raised # ""
            /\ \A j \in 1..(i - 1) : CreateClip(its[j]).raised = ""
    ELSE 0

NoFinalClip == [duration |-> 0, concat_duration |-> 0, padded |-> FALSE]

\* the padding step: when the last original clip has audio and the sum of the
\* original durations exceeds final_clip.duration, a freeze frame of the
\* difference is appended
PaddedFinalClip(original_clips, concat_duration) ==
    LET last_audio_end_time == SumDurations(original_clips)
    IN  IF /\ Len(original_clips) > 0
           /\ original_clips[Len(original_clips)].has_audio
           /\ last_audio_end_time > concat_duration
        THEN [duration |-> concat_duration + (last_audio_end_time - concat_duration),
              concat_duration |-> concat_duration, padded |-> TRUE]
        ELSE [duration |-> concat_duration,
              concat_duration |-> concat_duration, padded |-> FALSE]

\* advanced_options.get('video_resolution', None): <<0, 0>> stands for None
NoResolution == <<0, 0>>

VideoResolutions == {NoResolution, <<6, 4>>}

\* the frame size (w, h) of the clip create_video keeps for an item: that of
\* the image (ImageClip, kept by the animation), or video_resolution after
\* clip.resize(video_resolution) when a resolution is given
ClipSize(it, resolution) ==
    IF resolution # NoResolution THEN resolution ELSE it.image_size

EmptyAccepted(its) == FALSE

\* `not items`: the guard under which create_video raises ValueError
EmptyRejected(its) == its = <<>>

VideoInit ==
    /\ op = "none"
    /\ items \in ItemLists
    /\ transition \in VideoTransitions
    /\ transition_duration \in TransitionDurations
    /\ use_custom_transitions \in BOOLEAN
    /\ custom_transitions \in SeqsUpTo(TransitionNames, MaxClips - 1)
    /\ (~use_custom_transitions => custom_transitions = <<>>)
    /\ clips = <<>>
    /\ working_clips = <<>>
    /\ result_clips = <<>>
    /\ final_clip = NoFinalClip
    /\ closed = {}
    /\ output_dir_exists \in BOOLEAN
    /\ video_resolution \in VideoResolutions
    /\ clip_sizes = <<>>
    /\ drawn = <<>>
    /\ raised = ""

\* create_video, first part: the empty list is rejected; otherwise the
\* directory of output_path is made when it does not exist and create_clip
\* runs for each item in turn.  When one raises, the clips made so far are
\* closed and the exception is re-raised.
CreateVideoRender ==
    /\ op = "none"
    /\ IF EmptyRejected(items)
       THEN /\ op' = "failed"
            /\ raised' = "ValueError"
            /\ UNCHANGED <<clips, working_clips, closed, output_dir_exists, clip_sizes>>
       ELSE LET k == FirstFailing(items)
            IN  /\ output_dir_exists' = TRUE
                /\ IF k # 0
                   THEN /\ op' = "failed"
                        /\ raised' = CreateClip(items[k]).raised
                        /\ clips' = [i \in 1..(k - 1) |-> ClipOfItem(items, i)]
                        /\ clip_sizes' = [i \in 1..(k - 1) |->
                                            ClipSize(items[i], video_resolution)]
                        /\ working_clips' = clips'
                        /\ closed' = {clips'[i] : i \in 1..(k - 1)}
                   ELSE /\ op' = "rendered"
                        /\ raised' = ""
                        /\ clips' = [i \in 1..Len(items) |-> ClipOfItem(items, i)]
                        /\ clip_sizes' = [i \in 1..Len(items) |->
                                            ClipSize(items[i], video_resolution)]
                        /\ working_clips' = clips'
                        /\ UNCHANGED closed
    /\ UNCHANGED <<items, transition, transition_duration, use_custom_transitions,
                   custom_transitions, result_clips, final_clip, drawn, video_resolution>>
    /\ UNCHANGED <<clipVars, frameVars, ctlVars, blindsVars>>

\* create_video, second part: the transitions (create_composite_transition
\* when a custom list is in use, else apply_transitions_to_clips and
\* concatenate_videoclips; plain concatenation when there is one clip or no
\* transition), then the padding step
CreateVideoStitch ==
    /\ op = "rendered"
    /\ op' = "stitched"
    /\ IF Len(clips) > 1 /\ (transition # "" \/ use_custom_transitions)
       THEN IF use_custom_transitions /\ custom_transitions # <<>>
            THEN \E draws \in DrawSeqs([i \in 1..Len(clips) |->
                        i > 1 /\ CompositeName(transition, custom_transitions, i) = "random"],
                        Len(clips)) :
                    LET r == CreateCompositeTransition(clips, transition,
                                 transition_duration, custom_transitions, draws)
                    IN  /\ result_clips' = r.result
                        /\ drawn' = r.drawn
                        /\ working_clips' = clips
                        /\ UNCHANGED custom_transitions
            ELSE \E draws \in DrawSeqs([i \in 1..Len(clips) |->
                        i > 1 /\ AppliesRandom(BoundaryName(clips, transition,
                                    use_custom_transitions, custom_transitions, i))],
                        Len(clips)) :
                    LET r == ApplyTransitionsToClips(clips, transition,
                                 transition_duration, use_custom_transitions,
                                 custom_transitions, draws)
                    IN  /\ result_clips' = r.result
                        /\ drawn' = r.drawn
                        /\ working_clips' = r.result
                        /\ custom_transitions' = r.custom
       ELSE /\ result_clips' = clips
            /\ working_clips' = clips
            /\ drawn' = [i \in 1..Len(clips) |-> ""]
            /\ UNCHANGED custom_transitions
    /\ final_clip' = PaddedFinalClip(clips, ConcatDuration(result_clips'))
    /\ UNCHANGED <<items, clips, transition, transition_duration,
                   use_custom_transitions, closed, raised, output_dir_exists,
                   video_resolution, clip_sizes>>
    /\ UNCHANGED <<clipVars, frameVars, ctlVars, blindsVars>>

\* create_video, last part: write_videofile succeeds, then the clips of the
\* working list are closed and the path is returned
CreateVideoWrite ==
    /\ op = "stitched"
    /\ op' = "written"
    /\ closed' = {working_clips[i] : i \in DOMAIN working_clips}
    /\ UNCHANGED <<items, clips, transition, transition_duration, use_custom_transitions,
                   custom_transitions, result_clips, working_clips, final_clip, drawn,
                   raised, output_dir_exists, video_resolution, clip_sizes>>
    /\ UNCHANGED <<clipVars, frameVars, ctlVars, blindsVars>>

\* create_video, last part: write_videofile raises; the except branch closes
\* the clips of the working list and re-raises
CreateVideoWriteFails ==
    /\ op = "stitched"
    /\ op' = "failed"
    /\ raised' = "EncoderError"
    /\ closed' = {working_clips[i] : i \in DOMAIN working_clips}
    /\ UNCHANGED <<items, clips, transition, transition_duration, use_custom_transitions,
                   custom_transitions, result_clips, working_clips, final_clip, drawn,
                   output_dir_exists, video_resolution, clip_sizes>>
    /\ UNCHANGED <<clipVars, frameVars, ctlVars, blindsVars>>

VideoNext ==
    \/ CreateVideoRender
    \/ CreateVideoStitch
    \/ CreateVideoWrite
    \/ CreateVideoWriteFails

\* the state of these variables under the other specifications
VideoIdle ==
    /\ items = <<>>
    /\ working_clips = <<>>
    /\ final_clip = NoFinalClip
    /\ closed = {}
    /\ output_dir_exists = FALSE
    /\ video_resolution = NoResolution
    /\ clip_sizes = <<>>

(***************************************************************************)
(* VideoService.apply_opencv_animation and its process_frame               *)
(*                                                                         *)
(* Scales and offsets of the animation dict are hundredths (115 = 1.15,    *)
(* 5 = 0.05), progress and curve values are hundredths, interpolated       *)
(* scales and offsets are ten-thousandths (10000 = 1.0) and the scale of   *)
(* the matrix handed to warpAffine is in units of 10^-8 (the product of    *)
(* two ten-thousandths).  The curve names are Chinese words in the source: *)
(* "linear", "ease-in", "strong-ease-in", "super-ease-in", "ease-out",     *)
(* "strong-ease-out", "super-ease-out", "ease-in-out",                     *)
(* "strong-ease-in-out", "elastic" and "bounce" stand for the eleven keys  *)
(* of animation_curves in their order.                                     *)
(***************************************************************************)

\* the largest elapsed time process_frame is asked for
MaxT == 5

\* self.animation_curves, tabulated at progress 0, 0.25, 0.5, ..., 3 (the
\* lambdas are defined beyond 1) and rounded to hundredths
animation_curves ==
    [ linear |-> <<0, 25, 50, 75, 100, 125, 150, 175, 200, 225, 250, 275, 300>>,
      ease_in |-> <<0, 2, 13, 42, 100, 195, 338, 536, 800, 1139, 1563, 2080, 2700>>,
      strong_ease_in |-> <<0, 0, 6, 32, 100, 244, 506, 938, 1600, 2563, 3906, 5719, 8100>>,
      super_ease_in |-> <<0, 0, 3, 24, 100, 305, 759, 1641, 3200, 5767, 9766, 15728, 24300>>,
      ease_out |-> <<0, 58, 88, 98, 100, 102, 113, 142, 200, 295, 438, 636, 900>>,
      strong_ease_out |-> <<0, 68, 94, 100, 100, 100, 94, 68, 0, -144, -406, -838, -1500>>,
      super_ease_out |-> <<0, 76, 97, 100, 100, 100, 103, 124, 200, 405, 859, 1741, 3300>>,
      ease_in_out |-> <<0, 15, 50, 85, 100, 85, 50, 15, 0, 15, 50, 85, 100>>,
      strong_ease_in_out |-> <<0, 15, 50, 85, 100, 85, 50, 15, 0, 15, 50, 85, 100>>,
      elastic |-> <<-80, 25, 68, 75, 96, 125, 151, 175, 200, 225, 250, 275, 300>>,
      bounce |-> <<0, 13, 50, 88, 100, 88, 50, -12, -100, -212, -350, -512, -700>> ]

CurveNames == DOMAIN animation_curves

\* get_curve_function(curve_name)(progress): the named curve, the linear one
\* for a name that is not in the table
CurveValue(curve_name, progress) ==
    IF curve_name \in CurveNames
    THEN animation_curves[curve_name][(progress \div 25) + 1]
    ELSE animation_curves["linear"][(progress \div 25) + 1]

\* the animation dicts: scale ranges and position ranges of the presets, a
\* range that stays at 1.0, one that starts below 1.0, and dicts without the
\* 'scale' or 'position' key
ScaleRanges == {<<100, 100>>, <<100, 120>>, <<120, 100>>, <<110, 110>>, <<100, 115>>, <<80, 100>>}

PositionRanges ==
    { <<<<0, 0>>, <<0, 0>>>>, <<<<5, 0>>, <<-5, 0>>>>, <<<<0, 5>>, <<0, -5>>>>,
      <<<<-4, -4>>, <<4, 4>>>> }

AnimationDicts ==
    { [has_scale |-> hs, scale |-> sc, has_position |-> hp, position |-> po, curve |-> cu] :
        hs \in BOOLEAN, sc \in ScaleRanges, hp \in BOOLEAN, po \in PositionRanges,
        cu \in CurveNames \cup {"unknown"} }

\* a dict without a key carries no value for it
WellFormedDict(ap) ==
    /\ (~ap.has_scale => ap.scale = <<100, 100>>)
    /\ (~ap.has_position => ap.position = <<<<0, 0>>, <<0, 0>>>>)

ScaleOfDefaultZoom(ap) == IF ap.has_scale THEN ap.scale ELSE <<100, 120>>

\* animation_params.get('scale', [1.0, 1.0])
ScaleOf(ap) == IF ap.has_scale THEN ap.scale ELSE <<100, 100>>

\* animation_params.get('position', [(0, 0), (0, 0)])
PositionOf(ap) == IF ap.has_position THEN ap.position ELSE <<<<0, 0>>, <<0, 0>>>>

\* progress = min(1.0, t / duration) if duration > 0 else 1.0
Progress(t, duration) ==
    IF duration > 0 THEN Min2(100, (100 * t) \div duration) ELSE 100

\* start + (end - start) * curve_value, in ten-thousandths
Interpolate(start, end, curve_value) == start * 100 + (end - start) * curve_value

\* border_scale = max(1.0, 1.0 + 2 * max_x_shift, 1.0 + 2 * max_y_shift)
BorderScale(current_x, current_y) ==
    Max2(10000, Max2(10000 + 2 * Abs(current_x), 10000 + 2 * Abs(current_y)))

\* the guard of the scaling warp: current_scale != 1.0
ScaleIsApplied(current_scale) == current_scale # 10000

\* process_frame(get_frame, t): the interpolated values, the scale of M_scale
\* and which of the two warps were applied to the frame
ProcessFrame(ap, duration, t) ==
    LET progress == Progress(t, duration)
        curve_value == CurveValue(ap.curve, progress)
        current_scale == Interpolate(ScaleOf(ap)[1], ScaleOf(ap)[2], curve_value)
        current_x == Interpolate(PositionOf(ap)[1][1], PositionOf(ap)[2][1], curve_value)
        current_y == Interpolate(PositionOf(ap)[1][2], PositionOf(ap)[2][2], curve_value)
        shifted == Abs(current_x) > 0 \/ Abs(current_y) > 0
        m_scale == IF shifted
                   THEN current_scale * BorderScale(current_x, current_y)
                   ELSE current_scale * 10000
        scaled == ScaleIsApplied(current_scale)
    IN  [rendered |-> TRUE, t |-> t, progress |-> progress, curve_value |-> curve_value,
         current_scale |-> current_scale, current_x |-> current_x, current_y |-> current_y,
         scaled |-> scaled,
         scale_applied |-> IF scaled THEN m_scale ELSE 10000 * 10000,
         translated |-> (current_x # 0 \/ current_y # 0)]

NoFrame ==
    [rendered |-> FALSE, t |-> 0, progress |-> 0, curve_value |-> 0,
     current_scale |-> 0, current_x |-> 0, current_y |-> 0,
     scaled |-> FALSE, scale_applied |-> 0, translated |-> FALSE]

(***************************************************************************)
(* AnimationService.apply_animation and its make_frame                     *)
(*                                                                         *)
(* The preset names are Chinese words in the source; "push", "pull",       *)
(* "move-left", "move-right", "rise", "fall", "pan-left", "pan-right",     *)
(* "follow-left", "follow-right", "push-left", "push-right", "pull-left",  *)
(* "pull-right", "orbit", "focus" and "defocus" stand for the seventeen    *)
(* presets in their order, "random" for the last key, whose value is None. *)
(***************************************************************************)

\* a preset dict: both keys and the curve are present
Preset(scale, position, curve) ==
    [has_scale |-> TRUE, scale |-> scale, has_position |-> TRUE, position |-> position,
     curve |-> curve]

\* self.preset_animations without the "random" key
preset_animations ==
    [ push |-> Preset(<<100, 120>>, <<<<0, 0>>, <<0, 0>>>>, "ease_in_out"),
      pull |-> Preset(<<120, 100>>, <<<<0, 0>>, <<0, 0>>>>, "ease_in_out"),
      move_left |-> Preset(<<110, 110>>, <<<<5, 0>>, <<-5, 0>>>>, "ease_in_out"),
      move_right |-> Preset(<<110, 110>>, <<<<-5, 0>>, <<5, 0>>>>, "ease_in_out"),
      rise |-> Preset(<<110, 110>>, <<<<0, 5>>, <<0, -5>>>>, "ease_in_out"),
      fall |-> Preset(<<110, 110>>, <<<<0, -5>>, <<0, 5>>>>, "ease_in_out"),
      pan_left |-> Preset(<<100, 115>>, <<<<5, 0>>, <<-5, 0>>>>, "ease_in_out"),
      pan_right |-> Preset(<<100, 115>>, <<<<-5, 0>>, <<5, 0>>>>, "ease_in_out"),
      follow_left |-> Preset(<<110, 110>>, <<<<6, 0>>, <<-6, 0>>>>, "linear"),
      follow_right |-> Preset(<<110, 110>>, <<<<-6, 0>>, <<6, 0>>>>, "linear"),
      push_left |-> Preset(<<100, 120>>, <<<<3, 0>>, <<-3, 0>>>>, "ease_in_out"),
      push_right |-> Preset(<<100, 120>>, <<<<-3, 0>>, <<3, 0>>>>, "ease_in_out"),
      pull_left |-> Preset(<<120, 100>>, <<<<3, 0>>, <<-3, 0>>>>, "ease_in_out"),
      pull_right |-> Preset(<<120, 100>>, <<<<-3, 0>>, <<3, 0>>>>, "ease_in_out"),
      orbit |-> Preset(<<110, 110>>, <<<<-4, -4>>, <<4, 4>>>>, "ease_in_out"),
      focus |-> Preset(<<100, 120>>, <<<<0, 0>>, <<0, 0>>>>, "ease_in"),
      defocus |-> Preset(<<120, 100>>, <<<<0, 0>>, <<0, 0>>>>, "ease_out") ]

\* list(self.preset_animations.keys()) after preset_names.remove("random")
PresetNames == DOMAIN preset_animations

\* the dict that stands for no settings (None)
NoSettings ==
    [has_scale |-> FALSE, scale |-> <<100, 100>>, has_position |-> FALSE,
     position |-> <<<<0, 0>>, <<0, 0>>>>, curve |-> "None"]

\* self.preset_animations.get(name): None for "random" and for an unknown name
PresetGet(name) == IF name \in PresetNames THEN preset_animations[name] ELSE NoSettings

PresetGetRandomKey(name, draw) == NoSettings

\* self.preset_animations[random.choice(preset_names)], draw being the choice
PresetDrawn(name, draw) == preset_animations[draw]

NoAnimClip == [built |-> FALSE, static |-> FALSE, settings |-> NoSettings, drawn |-> "",
               duration |-> 0, raised |-> ""]

\* apply_animation(image_path, animation_settings, duration): a string is
\* resolved to a preset ("random" by one draw), an unknown name or no settings
\* give the static clip, a dict is used as it is
ApplyAnimation(name, ap, duration, draw) ==
    LET animation_settings ==
            IF name # ""
            THEN IF name = "random" THEN PresetDrawn(name, draw) ELSE PresetGet(name)
            ELSE ap
    IN  [built |-> TRUE, static |-> (animation_settings = NoSettings),
         settings |-> animation_settings,
         drawn |-> IF name = "random" THEN draw ELSE "", duration |-> duration,
         raised |-> ""]

AnimationCurveElastic(curve_name, progress) ==
    animation_curves["elastic"][(progress \div 25) + 1]

\* self.animation_curves.get(curve_name, self.animation_curves['linear'])(progress)
AnimationCurve(curve_name, progress) ==
    IF curve_name \in CurveNames
    THEN animation_curves[curve_name][(progress \div 25) + 1]
    ELSE animation_curves["linear"][(progress \div 25) + 1]

\* progress = t / duration if duration > 0 else 1.0
MakeFrameProgress(t, duration) == IF duration > 0 THEN (100 * t) \div duration ELSE 100

NoMadeFrame ==
    [rendered |-> FALSE, static |-> FALSE, t |-> 0, progress |-> 0, curve_progress |-> 0,
     current_scale |-> 0, current_pos_x |-> 0, current_pos_y |-> 0]

\* make_frame(t) of the clip apply_animation returned: the image itself for the
\* static clip, else the image under the scale and offset interpolated at t
MakeFrame(clip, duration, t) ==
    IF clip.static
    THEN [rendered |-> TRUE, static |-> TRUE, t |-> t, progress |-> 0, curve_progress |-> 0,
          current_scale |-> 10000, current_pos_x |-> 0, current_pos_y |-> 0]
    ELSE LET ap == clip.settings
             progress == MakeFrameProgress(t, duration)
             curve_progress == AnimationCurve(ap.curve, progress)
         IN  [rendered |-> TRUE, static |-> FALSE, t |-> t, progress |-> progress,
              curve_progress |-> curve_progress,
              current_scale |->
                  Interpolate(ScaleOf(ap)[1], ScaleOf(ap)[2], curve_progress),
              current_pos_x |->
                  Interpolate(PositionOf(ap)[1][1], PositionOf(ap)[2][1], curve_progress),
              current_pos_y |->
                  Interpolate(PositionOf(ap)[1][2], PositionOf(ap)[2][2], curve_progress)]

\* The affine maps of the two frame functions, along one axis.  A matrix row
\* is [a, tx]: the point x is sent to a * x + tx.  Points are given in half
\* pixels (x2 = 2 * x); a is a scale in ten-thousandths for make_frame and in
\* units of 10^-8 for process_frame, and the image of a point is in units of
\* 1/20000 pixel for make_frame and of 1/(2 * 10^8) pixel for process_frame.

\* the image and canvas extents (pixels) the maps are evaluated for
ImageSizes == {4, 6}

CanvasSizes == {4, 6, 8}

\* cv2.getRotationMatrix2D((img_w/2, img_h/2), 0, current_scale): with angle 0
\* the row is [scale, (1 - scale) * center]
GetRotationMatrix2D(img, current_scale) ==
    [a |-> current_scale, tx |-> (10000 - current_scale) * img]

\* M of make_frame: the rotation matrix, then
\* M[0, 2] += center_x + offset_x - img_w/2 * current_scale
MakeFrameMatrix(img, canvas, current_scale, current_pos) ==
    LET M == GetRotationMatrix2D(img, current_scale)
        center == 10000 * canvas
        offset == 2 * canvas * current_pos
    IN  [a |-> M.a, tx |-> M.tx + center + offset - img * current_scale]

\* cv2.warpAffine(img_rgb, M, ...): where the matrix row sends the point x2
WarpPoint(M, x2) == M.a * x2 + M.tx

\* process_frame's two warps on a frame of extent w: M_scale (only when the
\* scaling warp is applied), then M_translate (only when the frame is moved)
ProcessFramePoint(fr, w, current, x2) ==
    LET M_scale == [a |-> fr.scale_applied, tx |-> w * (100000000 - fr.scale_applied)]
        M_translate == [a |-> 1, tx |-> 20000 * current * w]
        scaled_point == IF fr.scaled THEN WarpPoint(M_scale, x2) ELSE 100000000 * x2
    IN  IF fr.translated THEN WarpPoint(M_translate, scaled_point) ELSE scaled_point

\* the strings passed as animation_settings: the presets, "random", a name
\* that is no preset, and "" when a dict is passed
PresetInputs == PresetNames \cup {"random", "unknown", ""}

DefaultDict ==
    [has_scale |-> FALSE, scale |-> <<100, 100>>, has_position |-> FALSE,
     position |-> <<<<0, 0>>, <<0, 0>>>>, curve |-> "linear"]

FrameInit ==
    /\ animation_params \in {ap \in AnimationDicts : WellFormedDict(ap)}
    /\ preset_name \in PresetInputs
    /\ (preset_name # "" => animation_params = DefaultDict)
    /\ anim_duration \in {0, 2, 4}
    /\ frame = NoFrame
    /\ anim_clip = NoAnimClip
    /\ made_frame = NoMadeFrame

\* apply_animation builds the clip
ApplyAnimationCall ==
    /\ ~anim_clip.built
    /\ \E draw \in IF preset_name = "random" THEN PresetNames ELSE {""} :
          anim_clip' = ApplyAnimation(preset_name, animation_params, anim_duration, draw)
    /\ UNCHANGED <<animation_params, anim_duration, frame, preset_name, made_frame>>
    /\ UNCHANGED <<clipVars, transVars, videoVars, ctlVars, blindsVars>>

\* the clip apply_animation returned is asked for its frame at time t
MakeFrameCall ==
    /\ anim_clip.built
    /\ \E t \in 0..MaxT : made_frame' = MakeFrame(anim_clip, anim_duration, t)
    /\ UNCHANGED <<animation_params, anim_duration, frame, preset_name, anim_clip>>
    /\ UNCHANGED <<clipVars, transVars, videoVars, ctlVars, blindsVars>>

\* the clip is asked for its frame at time t
ProcessFrameCall ==
    /\ \E t \in 0..MaxT : frame' = ProcessFrame(animation_params, anim_duration, t)
    /\ UNCHANGED <<animation_params, anim_duration, preset_name, anim_clip, made_frame>>
    /\ UNCHANGED <<clipVars, transVars, videoVars, ctlVars, blindsVars>>

FrameNext == ProcessFrameCall \/ ApplyAnimationCall \/ MakeFrameCall

\* the state of these variables under the other specifications
FrameIdle ==
    /\ animation_params = [has_scale |-> FALSE, scale |-> <<100, 100>>,
                           has_position |-> FALSE,
                           position |-> <<<<0, 0>>, <<0, 0>>>>, curve |-> "linear"]
    /\ anim_duration = 0
    /\ frame = NoFrame
    /\ preset_name = ""
    /\ anim_clip = NoAnimClip
    /\ made_frame = NoMadeFrame

(***************************************************************************)
(* VideoController: the clip cache                                         *)
(*                                                                         *)
(* Three ImageItems: items 1 and 2 are images of the same file name in     *)
(* different directories, item 3 has another file name.  Their text is     *)
(* empty, so generate_clip asks for no audio.  An animation is "" (None)   *)
(* or one of two animation dicts.                                          *)
(***************************************************************************)

\* the largest number of controller calls in one run
MaxCalls == 3

CtlItems == {1, 2, 3}

\* str(item.image_path)
ImagePath(i) == CASE i = 1 -> "a/x.png" [] i = 2 -> "b/x.png" [] OTHER -> "a/y.png"

ImagePaths == {ImagePath(i) : i \in CtlItems}

\* os.path.splitext(os.path.basename(str(item.image_path)))[0]
ImageStem(i) == IF i \in {1, 2} THEN "x" ELSE "y"

\* _get_clip_filename followed by _get_clip_filepath: video_directory / (stem + "_clip.mp4")
ClipFilepath(i) ==
    IF ImageStem(i) = "x" THEN "output/video/x_clip.mp4" ELSE "output/video/y_clip.mp4"

ClipPaths == {ClipFilepath(i) : i \in CtlItems}

\* what combine_animation_settings returns for the presets chosen
AnimationSpecs == {"A1", "A2"}

NoFile == [exists |-> FALSE, image |-> "", animation |-> ""]

\* os.path.exists(clip_path); "" stands for no path
FileExists(dsk, path) == path \in ClipPaths /\ dsk[path].exists

IsClipGeneratedNever(gen, dsk, i) == [ret |-> FALSE, generated_clips |-> gen]

\* is_clip_generated(item): the answer and the cache it leaves
IsClipGenerated(gen, dsk, i) ==
    IF gen[ImagePath(i)] # "" /\ FileExists(dsk, gen[ImagePath(i)])
    THEN [ret |-> TRUE, generated_clips |-> gen]
    ELSE IF FileExists(dsk, ClipFilepath(i))
         THEN [ret |-> TRUE,
               generated_clips |-> [gen EXCEPT ![ImagePath(i)] = ClipFilepath(i)]]
         ELSE [ret |-> FALSE, generated_clips |-> gen]

NoCall == [op |-> "none", item |-> 0, ret |-> "", hit |-> FALSE, rendered |-> FALSE,
           items |-> <<>>, raised |-> ""]

CtlInit ==
    /\ generated_clips = [ip \in ImagePaths |-> ""]
    /\ disk = [cp \in ClipPaths |-> NoFile]
    /\ item_animation = [i \in CtlItems |-> ""]
    /\ image_exists \in [CtlItems -> BOOLEAN]
    /\ calls = 0
    /\ last_call = NoCall
    /\ last_returned = [i \in CtlItems |-> [path |-> "", animation |-> ""]]
    /\ last_video_path = ""

\* generate_clip(item): the cached path when is_clip_generated says so; else
\* video_service.preview_clip renders the clip into the video directory (it
\* raises when the image is missing) and the path is cached and returned
GenerateClipCall(i) ==
    /\ calls < MaxCalls
    /\ calls' = calls + 1
    /\ LET g == IsClipGenerated(generated_clips, disk, i)
       IN  IF g.ret
           THEN /\ generated_clips' = g.generated_clips
                /\ last_call' = [op |-> "generate_clip", item |-> i,
                                 ret |-> g.generated_clips[ImagePath(i)],
                                 hit |-> TRUE, rendered |-> FALSE, items |-> <<>>,
                                 raised |-> ""]
                /\ last_returned' = [last_returned EXCEPT ![i] =
                        [path |-> g.generated_clips[ImagePath(i)],
                         animation |-> item_animation[i]]]
                /\ UNCHANGED disk
           ELSE IF ~image_exists[i]
                THEN /\ last_call' = [op |-> "generate_clip", item |-> i, ret |-> "",
                                      hit |-> FALSE, rendered |-> FALSE, items |-> <<>>,
                                      raised |-> "Exception"]
                     /\ UNCHANGED <<generated_clips, disk, last_returned>>
                ELSE /\ disk' = [disk EXCEPT ![ClipFilepath(i)] =
                            [exists |-> TRUE, image |-> ImagePath(i),
                             animation |-> item_animation[i]]]
                     /\ generated_clips' =
                            [g.generated_clips EXCEPT ![ImagePath(i)] = ClipFilepath(i)]
                     /\ last_call' = [op |-> "generate_clip", item |-> i,
                                      ret |-> ClipFilepath(i), hit |-> FALSE,
                                      rendered |-> TRUE, items |-> <<>>, raised |-> ""]
                     /\ last_returned' = [last_returned EXCEPT ![i] =
                            [path |-> ClipFilepath(i), animation |-> item_animation[i]]]
    /\ UNCHANGED <<item_animation, image_exists, last_video_path>>
    /\ UNCHANGED <<clipVars, transVars, videoVars, frameVars, blindsVars>>

\* is_clip_generated(item), called on its own
IsClipGeneratedCall(i) ==
    /\ calls < MaxCalls
    /\ calls' = calls + 1
    /\ LET g == IsClipGenerated(generated_clips, disk, i)
       IN  /\ generated_clips' = g.generated_clips
           /\ last_call' = [op |-> "is_clip_generated", item |-> i, ret |-> "",
                            hit |-> g.ret, rendered |-> FALSE, items |-> <<>>,
                            raised |-> ""]
    /\ UNCHANGED <<disk, item_animation, image_exists, last_returned, last_video_path>>
    /\ UNCHANGED <<clipVars, transVars, videoVars, frameVars, blindsVars>>

\* create_animation_for_item(item, scale_preset, position_preset, curve): the
\* combined settings become item.animation and the item's cache entry is deleted
CreateAnimationForItemCall(i) ==
    /\ calls < MaxCalls
    /\ calls' = calls + 1
    /\ \E animation_settings \in AnimationSpecs :
          item_animation' = [item_animation EXCEPT ![i] = animation_settings]
    /\ generated_clips' = [generated_clips EXCEPT ![ImagePath(i)] = ""]
    /\ last_call' = [op |-> "create_animation_for_item", item |-> i, ret |-> "",
                     hit |-> FALSE, rendered |-> FALSE, items |-> <<>>, raised |-> ""]
    /\ UNCHANGED <<disk, image_exists, last_returned, last_video_path>>
    /\ UNCHANGED <<clipVars, transVars, videoVars, frameVars, blindsVars>>

\* the user deletes a clip file from the video directory
RemoveClipFile(cp) ==
    /\ calls < MaxCalls
    /\ disk[cp].exists
    /\ calls' = calls + 1
    /\ disk' = [disk EXCEPT ![cp] = NoFile]
    /\ last_call' = [op |-> "remove_file", item |-> 0, ret |-> "", hit |-> FALSE,
                     rendered |-> FALSE, items |-> <<>>, raised |-> ""]
    /\ UNCHANGED <<generated_clips, item_animation, image_exists, last_returned,
                   last_video_path>>
    /\ UNCHANGED <<clipVars, transVars, videoVars, frameVars, blindsVars>>

RECURSIVE EnsureClipsForItems(_, _, _, _, _)
\* _ensure_clips_for_items(items): for each item in turn, generate_clip when
\* is_clip_generated says no.  Gives the cache, the clip files and the record
\* of returns it leaves, and the exception generate_clip raised, if any.
EnsureClipsForItems(gen, dsk, returned, anims_images, its) ==
    IF its = <<>>
    THEN [generated_clips |-> gen, disk |-> dsk, last_returned |-> returned,
          raised |-> ""]
    ELSE LET i == Head(its)
             g == IsClipGenerated(gen, dsk, i)
         IN  IF g.ret
             THEN EnsureClipsForItems(g.generated_clips, dsk, returned, anims_images,
                                      Tail(its))
             ELSE IF ~anims_images.image_exists[i]
                  THEN [generated_clips |-> g.generated_clips, disk |-> dsk,
                        last_returned |-> returned, raised |-> "Exception"]
                  ELSE EnsureClipsForItems(
                           [g.generated_clips EXCEPT ![ImagePath(i)] = ClipFilepath(i)],
                           [dsk EXCEPT ![ClipFilepath(i)] =
                               [exists |-> TRUE, image |-> ImagePath(i),
                                animation |-> anims_images.item_animation[i]]],
                           [returned EXCEPT ![i] =
                               [path |-> ClipFilepath(i),
                                animation |-> anims_images.item_animation[i]]],
                           anims_images, Tail(its))

\* the item lists handed to generate_video
VideoItemLists == {<<>>} \cup {<<i>> : i \in CtlItems} \cup {<<1, 2>>, <<3, 1>>}

\* generate_video(items, settings): the empty list is rejected; otherwise the
\* missing clips are generated, then video_service.create_video runs: it raises
\* when an image is missing or when the encoder fails, else its path is kept
\* in last_video_path and returned
GenerateVideoCall(its) ==
    /\ calls < MaxCalls
    /\ calls' = calls + 1
    /\ IF its = <<>>
       THEN /\ last_call' = [op |-> "generate_video", item |-> 0, ret |-> "",
                             hit |-> FALSE, rendered |-> FALSE, items |-> its,
                             raised |-> "ValueError"]
            /\ UNCHANGED <<generated_clips, disk, last_returned, last_video_path>>
       ELSE LET e == EnsureClipsForItems(generated_clips, disk, last_returned,
                         [item_animation |-> item_animation,
                          image_exists |-> image_exists], its)
                call == [op |-> "generate_video", item |-> 0, ret |-> "", hit |-> FALSE,
                         rendered |-> (e.disk # disk), items |-> its, raised |-> ""]
            IN  /\ generated_clips' = e.generated_clips
                /\ disk' = e.disk
                /\ last_returned' = e.last_returned
                /\ IF e.raised # ""
                   THEN /\ last_call' = [call EXCEPT !.raised = e.raised]
                        /\ UNCHANGED last_video_path
                   ELSE IF \E k \in DOMAIN its : ~image_exists[its[k]]
                        THEN /\ last_call' = [call EXCEPT !.raised = "FileNotFoundError"]
                             /\ UNCHANGED last_video_path
                        ELSE \/ /\ last_call' = [call EXCEPT !.ret = "output/final.mp4"]
                                /\ last_video_path' = "output/final.mp4"
                             \/ /\ last_call' = [call EXCEPT !.raised = "EncoderError"]
                                /\ UNCHANGED last_video_path
    /\ UNCHANGED <<item_animation, image_exists>>
    /\ UNCHANGED <<clipVars, transVars, videoVars, frameVars, blindsVars>>

CtlNext ==
    \/ \E i \in CtlItems : GenerateClipCall(i)
    \/ \E i \in CtlItems : IsClipGeneratedCall(i)
    \/ \E i \in CtlItems : CreateAnimationForItemCall(i)
    \/ \E cp \in ClipPaths : RemoveClipFile(cp)
    \/ \E its \in VideoItemLists : GenerateVideoCall(its)

\* the state of these variables under the other specifications
CtlIdle ==
    /\ generated_clips = [ip \in ImagePaths |-> ""]
    /\ disk = [cp \in ClipPaths |-> NoFile]
    /\ item_animation = [i \in CtlItems |-> ""]
    /\ image_exists = [i \in CtlItems |-> TRUE]
    /\ calls = 0
    /\ last_call = NoCall
    /\ last_returned = [i \in CtlItems |-> [path |-> "", animation |-> ""]]
    /\ last_video_path = ""

(***************************************************************************)
(* TransitionService._blinds_effect, sampled row by row                    *)
(*                                                                         *)
(* A 3 s clip with audio is joined to a 4 s silent clip by the blinds       *)
(* transition; the frames have blinds_h rows.                               *)
(***************************************************************************)

\* clip1 and clip2 of the call
BlindsClips == [i \in 1..2 |-> RenderedClip(i, 1)]

\* the blind whose slice y_start:y_end holds row y, -1 when no slice does
BlindOfRow(h, y) ==
    LET blinds == { i \in 0..(num_blinds - 1) : InBlind(h, i, y) }
    IN  IF blinds = {} THEN 0 - 1 ELSE CHOOSE i \in blinds : TRUE

NoBlindsFrame ==
    [rendered |-> FALSE, t |-> 0, y |-> 0, blind |-> 0, weight |-> 0, pixel |-> 0]

BlindsInit ==
    /\ \E d \in TransitionDurations :
          blinds_clip = CallTransition("blinds", BlindsClips, 2, d)
    /\ blinds_h \in 1..MaxFrameHeight
    /\ blinds_frame = NoBlindsFrame

\* the clip is asked for one frame, at time t; row y of the frame is observed
BlindsEffectCall ==
    /\ ~blinds_frame.rendered
    /\ \E t \in 0..(blinds_clip.duration - 1), y \in 0..(blinds_h - 1) :
          blinds_frame' =
              [rendered |-> TRUE, t |-> t, y |-> y,
               blind |-> BlindOfRow(blinds_h, y),
               weight |-> IF t < blinds_clip.d
                          THEN BlindsRowWeight(blinds_h, y, t, blinds_clip.d)
                          ELSE num_blinds * blinds_clip.d,
               pixel |-> BlindsEffect(BlindsClips, blinds_clip, t, blinds_h, y)]
    /\ UNCHANGED <<blinds_clip, blinds_h>>
    /\ UNCHANGED <<clipVars, transVars, videoVars, frameVars, ctlVars>>

BlindsNext == BlindsEffectCall

\* the state of these variables under the other specifications
BlindsIdle ==
    /\ blinds_clip = RenderedClip(1, 1)
    /\ blinds_h = 1
    /\ blinds_frame = NoBlindsFrame

(***************************************************************************)
(* Specifications                                                          *)
(***************************************************************************)

InitClip == ClipInit /\ TransIdle /\ VideoIdle /\ FrameIdle /\ CtlIdle /\ BlindsIdle

SpecClip == InitClip /\ [][ClipNext]_vars

InitTrans == TransInit /\ ClipIdle /\ VideoIdle /\ FrameIdle /\ CtlIdle /\ BlindsIdle

SpecTrans == InitTrans /\ [][TransNext]_vars

InitVideo == VideoInit /\ ClipIdle /\ FrameIdle /\ CtlIdle /\ BlindsIdle

SpecVideo == InitVideo /\ [][VideoNext]_vars

InitFrame == FrameInit /\ ClipIdle /\ TransIdle /\ VideoIdle /\ CtlIdle /\ BlindsIdle

SpecFrame == InitFrame /\ [][FrameNext]_vars

InitCtl == CtlInit /\ ClipIdle /\ TransIdle /\ VideoIdle /\ FrameIdle /\ BlindsIdle

SpecCtl == InitCtl /\ [][CtlNext]_vars

InitBlinds ==
    BlindsInit /\ ClipIdle /\ TransIdle /\ VideoIdle /\ FrameIdle /\ CtlIdle

SpecBlinds == InitBlinds /\ [][BlindsNext]_vars

\* The services and the controller side by side, as the application calls
\* them: create_video and create_composite_transition on an empty or a
\* one-item list, next to the controller's calls.
InitApp ==
    /\ VideoInit
    /\ items \in {<<>>, <<VideoItem(0)>>}
    /\ video_resolution = NoResolution
    /\ transition = "crossfade"
    /\ transition_duration = 1
    /\ ~use_custom_transitions
    /\ CtlIdle
    /\ ClipIdle
    /\ FrameIdle
    /\ BlindsIdle

NextApp == VideoNext \/ CompositeTransitionCall \/ CtlNext

SpecApp == InitApp /\ [][NextApp]_vars

(***************************************************************************)
(* Claims about create_clip                                               *)
(***************************************************************************)

\* C1: create_clip resolves the clip's duration as the attached audio's
\* duration when an audio path is given, the file exists and its duration is
\* > 0; otherwise the item's duration hint; otherwise the default of 5 s.
C1_DurationResolution ==
    (clipOp = "create_clip" /\ clipResult.raised = "") =>
        clipResult.clip.duration =
            IF item.audio_path = "present" /\ item.audio_len > 0
            THEN item.audio_len
            ELSE IF item.has_duration THEN item.duration ELSE 5

\* C1 witness: hint 3, attached audio of length 6, resolved duration 6.
C1_Witness ==
    /\ clipOp = "create_clip"
    /\ item.has_duration /\ item.duration = 3
    /\ item.audio_path = "present" /\ item.audio_len = 6
    /\ clipResult.raised = ""
    /\ clipResult.clip.duration = 6

\* C9 as stated: create_clip raises a source-not-found error whenever the image
\* is missing and likewise whenever a non-empty audio_path does not exist.
C9_MissingSourceRaises ==
    (clipOp = "create_clip"
        /\ (~item.image_exists \/ item.audio_path = "missing")) =>
        clipResult.raised = "FileNotFoundError"

\* C9 amended: a missing image is fatal (create_clip raises FileNotFoundError,
\* preview_clip re-raises it wrapped in an Exception, create_clip having been
\* called once); a missing audio file alone is not: the clip is built without
\* audio and takes its duration from the hint or the default.
C9_MissingImageRaises ==
    /\ (clipOp = "create_clip" =>
            /\ (clipResult.raised = "FileNotFoundError") = ~item.image_exists
            /\ clipResult.raised \in {"", "FileNotFoundError"})
    /\ (clipOp = "preview_clip" =>
            /\ (clipResult.raised = "Exception") = ~item.image_exists
            /\ (clipResult.raised = "Exception" =>
                    clipResult.cause = "FileNotFoundError" /\ ~clipResult.written)
            /\ clipResult.raised \in {"", "Exception"})
    /\ (clipOp # "none" => clipResult.create_clip_calls = 1)
    /\ (clipOp # "none" /\ item.image_exists /\ item.audio_path = "missing" =>
            /\ clipResult.raised = ""
            /\ ~clipResult.clip.has_audio
            /\ clipResult.clip.duration =
                   IF item.has_duration THEN item.duration ELSE 5)

\* C9 witness: the image is missing and create_clip has raised.
C9_Witness ==
    /\ clipOp = "create_clip"
    /\ ~item.image_exists
    /\ clipResult.raised = "FileNotFoundError"

(***************************************************************************)
(* Claims about the transition service                                     *)
(***************************************************************************)

\* the transition name in force at the boundary before clip i once the call
\* has returned: the per-boundary entry when the list has one, else the global
\* name
NameInForce(i) ==
    IF custom_transitions # <<>> /\ i - 1 <= Len(custom_transitions)
    THEN custom_transitions[i - 1]
    ELSE transition

\* C2: for every transition kind other than 'none', the blended clip's frame at
\* t is, for t < duration, a combination of clip A sampled at
\* clipA.duration - duration + t and clip B sampled at t, and for t >= duration
\* exactly clip B's frame at t.
C2_BlendedFrameRule ==
    (op # "none" /\ raised = "") =>
        \A i \in DOMAIN result_clips :
            LET c == result_clips[i]
            IN  c.kind # "image" =>
                    \A t \in 0..c.duration :
                        LET f == GetFrame(clips, c, t)
                        IN  IF t < transition_duration
                            THEN /\ f.kind = c.kind
                                 /\ f.a = i - 1
                                 /\ f.ta = clips[i - 1].duration - transition_duration + t
                                 /\ f.b = i
                                 /\ f.tb = t
                            ELSE f = GetFrame(clips, clips[i], t)

\* C2 witness: a blended clip whose window ends inside it, so that both the
\* blended frames and the pass-through frames exist.
C2_Witness ==
    /\ op = "apply_transitions_to_clips"
    /\ \E i \in DOMAIN result_clips :
          /\ result_clips[i].kind = "flash"
          /\ result_clips[i].d = 1
          /\ result_clips[i].duration = 3
          /\ GetFrame(clips, result_clips[i], 0).ta = 3
          /\ GetFrame(clips, result_clips[i], 2) = ImageFrame(i, 2)

\* C4 as stated: for a transition name that is not in the table, stitching
\* N >= 2 clips does not raise and every such boundary is blended with the
\* crossfade rule, on the global path and on the per-boundary path.
C4_UnknownNameCrossfades ==
    (op # "none" /\ Len(clips) >= 2) =>
        /\ raised = ""
        /\ \A i \in 2..Len(clips) :
              NameInForce(i) \notin TransitionKeys => result_clips[i].kind = "crossfade"

\* C5 as stated: where a boundary's transition is 'random', a kind is drawn for
\* that boundary from the table without 'none' and 'random', and the transition
\* applied at the boundary is the drawn one, on both paths.
C5_RandomAppliesDrawn ==
    (op # "none" /\ raised = "") =>
        \A i \in 2..Len(clips) :
            NameInForce(i) = "random" =>
                /\ drawn[i] \in TransitionKeys \ {"none", "random"}
                /\ result_clips[i].kind = drawn[i]

\* C12: when the per-boundary list is shorter than N-1, every boundary within
\* the list is stitched under its own entry and every boundary beyond the end
\* of the list under the global transition name, and all N-1 boundaries are
\* processed: the call leaves, at each boundary, the clip its path makes for
\* that name.
C12_ShortListBackfilled ==
    [][ (op = "none" /\ op' # "none" /\ raised' = "" /\ Len(clips) >= 2) =>
            /\ Len(result_clips') = Len(clips)
            /\ \A i \in 2..Len(clips) :
                  LET name == IF i - 1 <= Len(custom_transitions)
                              THEN custom_transitions[i - 1]
                              ELSE transition
                  IN  result_clips'[i] =
                          IF op' = "apply_transitions_to_clips"
                          THEN AppliedClip(name, clips, i, transition_duration, drawn'[i])
                          ELSE CompositeClip(name, clips, i, transition_duration) ]_vars

\* C12 witness: three clips stitched by create_composite_transition with a list
\* of one entry: the first boundary is a flash, the second the global crossfade.
C12_Witness ==
    /\ op = "create_composite_transition"
    /\ Len(clips) = 3
    /\ custom_transitions = <<"flash">>
    /\ transition = "crossfade"
    /\ result_clips[2].kind = "flash"
    /\ result_clips[3].kind = "crossfade"

\* C13: inside the window a crossfade frame is the blend A*(1-q) + B*q with
\* q = t/duration of clip A sampled at clipA.duration - duration + t and clip B
\* sampled at t; at t = 0 it equals clip A's sampled frame, towards the end of
\* the window it comes as close to clip B's frame as the remaining weight of A
\* allows, and at every t >= duration it is exactly clip B's own frame.
C13_CrossfadeContinuity ==
    (op # "none" /\ raised = "") =>
        \A i \in DOMAIN result_clips :
            LET c == result_clips[i]
                d == transition_duration
            IN  c.kind = "crossfade" =>
                    \A t \in 0..(c.duration - 1) :
                        LET A == Pixel(i - 1, clips[i - 1].duration - d + t)
                            B == Pixel(i, t)
                            f == CrossfadeEffect(clips, c, t)
                        IN  /\ t = 0 => f = A
                            /\ t < d => 2 * Abs(d * f - (A * (d - t) + B * t)) <= d
                            /\ t < d => 2 * d * Abs(f - B) <= 2 * Abs(A - B) * (d - t) + d
                            /\ t >= d => f = B

\* C13 witness: a 3 s clip behind a 2 s crossfade: clip A's frame at t = 0, an
\* even mix at t = 1, clip B's own frame at t = 2.
C13_Witness ==
    /\ op # "none"
    /\ transition_duration = 2
    /\ \E i \in DOMAIN result_clips :
          /\ result_clips[i].kind = "crossfade"
          /\ result_clips[i].duration = 3
          /\ CrossfadeEffect(clips, result_clips[i], 0) = Pixel(i - 1, clips[i - 1].duration - 2)
          /\ CrossfadeEffect(clips, result_clips[i], 1) # Pixel(i, 1)
          /\ CrossfadeEffect(clips, result_clips[i], 1) # Pixel(i - 1, clips[i - 1].duration - 1)
          /\ CrossfadeEffect(clips, result_clips[i], 2) = Pixel(i, 2)

\* C14: every blended clip a transition function returns lasts as long as
\* clip B and carries clip B's audio track, or none when clip B has none; clip
\* A's audio is never attached to it.
C14_BlendedClipIsClipB ==
    (op # "none" /\ raised = "") =>
        \A i \in DOMAIN result_clips :
            LET c == result_clips[i]
            IN  c.kind # "image" =>
                    /\ c.duration = clips[i].duration
                    /\ c.has_audio = clips[i].has_audio
                    /\ c.audio_of = (IF clips[i].has_audio THEN i ELSE 0)
                    /\ c.audio_duration = clips[i].audio_duration
                    /\ c.audio_of # i - 1

\* C14 witness: a blinds transition from a clip with audio into a silent 4 s
\* clip: the blended clip lasts 4 s and is silent.
C14_Witness ==
    /\ op = "apply_transitions_to_clips"
    /\ \E i \in DOMAIN result_clips :
          /\ result_clips[i].kind = "blinds"
          /\ clips[i - 1].has_audio /\ clips[i - 1].duration = 3
          /\ ~clips[i].has_audio
          /\ result_clips[i].duration = 4
          /\ result_clips[i].audio_of = 0

\* C20: a boundary whose transition is 'none', as the global transition or as
\* a per-boundary entry, leaves clip B itself in the stitched list, unmodified:
\* its frames are clip B's own and clip A is not sampled for that boundary.
C20_NoneLeavesClipB ==
    (op # "none" /\ raised = "") =>
        \A i \in 2..Len(clips) :
            NameInForce(i) = "none" =>
                /\ result_clips[i] = clips[i]
                /\ \A t \in 0..(clips[i].duration - 1) :
                      LET f == GetFrame(clips, result_clips[i], t)
                      IN  f = ImageFrame(i, t) /\ f.a = 0

\* C20 witness: three clips stitched by create_composite_transition with the
\* list ['none'] and the global crossfade: the second clip is left as it is,
\* the third is blended.
C20_Witness ==
    /\ op = "create_composite_transition"
    /\ Len(clips) = 3
    /\ custom_transitions = <<"none">>
    /\ transition = "crossfade"
    /\ result_clips[2] = clips[2]
    /\ result_clips[3].kind = "crossfade"

\* C22 as stated: with the canvas divided into N = 20 horizontal strips, strip
\* i shows only clip A while q <= i/N and starts revealing clip B once
\* q = t/duration exceeds i/N.
C22_BlindsStripAtProgressOverN ==
    (blinds_frame.rendered /\ blinds_frame.t < blinds_clip.d /\ blinds_frame.blind >= 0) =>
        LET t == blinds_frame.t
            d == blinds_clip.d
            i == blinds_frame.blind
            A == Pixel(1, SampleTimeA(BlindsClips[1].duration, d, t))
        IN  /\ num_blinds * t <= i * d => blinds_frame.pixel = A
            /\ num_blinds * t > i * d => blinds_frame.weight > 0

\* C22 amended: strip i shows only clip A while q <= i/(2N) and, once
\* q = t/duration exceeds i/(2N), is the linear blend of A and B with the
\* weight min(1, 2q - i/N) on B.
C22_BlindsStripSchedule ==
    (blinds_frame.rendered /\ blinds_frame.t < blinds_clip.d /\ blinds_frame.blind >= 0) =>
        LET t == blinds_frame.t
            d == blinds_clip.d
            i == blinds_frame.blind
            A == Pixel(1, SampleTimeA(BlindsClips[1].duration, d, t))
            B == Pixel(2, t)
            f == blinds_frame.pixel
            n == num_blinds * d
            w == Min2(n, 2 * num_blinds * t - i * d)
        IN  /\ 2 * num_blinds * t <= i * d => f = A
            /\ 2 * num_blinds * t > i * d =>
                    /\ blinds_frame.weight = w
                    /\ 2 * Abs(n * f - (A * (n - w) + B * w)) <= n

\* C22 witness: a 5 s blinds window at t = 2 (q = 0.4) over frames of 20 rows:
\* strip 10 (i/N = 0.5, i/(2N) = 0.25) already mixes clip B in at weight 0.3.
C22_Witness ==
    /\ blinds_frame.rendered
    /\ blinds_clip.d = 5 /\ blinds_h = num_blinds
    /\ blinds_frame.t = 2 /\ blinds_frame.y = 10 /\ blinds_frame.blind = 10
    /\ blinds_frame.weight = 30
    /\ blinds_frame.pixel # Pixel(1, SampleTimeA(BlindsClips[1].duration, 5, 2))
    /\ blinds_frame.pixel # Pixel(2, 2)

\* C23 as stated: inside the window clip B's frame is transformed by a pure
\* rotation of 90 * (1 - q) degrees about its centre (no change of size) and
\* cross-blended with clip A's frame with weight q on B and 1 - q on A.
C23_RotateFadePureRotation ==
    (op # "none" /\ raised = "") =>
        \A k \in DOMAIN result_clips :
            LET c == result_clips[k]
            IN  c.kind = "rotate-fade" =>
                    \A t \in 0..(c.duration - 1) :
                        LET A == Pixel(c.a, SampleTimeA(clips[c.a].duration, c.d, t))
                            B == Pixel(c.b, t)
                            r == RotateEffect(clips, c, t)
                        IN  t < c.d =>
                                /\ r.rot_mat.angle * c.d = 90 * (c.d - t) * r.rot_mat.den
                                /\ r.rot_mat.scale = r.rot_mat.den
                                /\ 2 * Abs(c.d * r.centre - (A * (c.d - t) + B * t)) <= c.d

\* C23 amended: inside the window clip B's frame is rotated by 90 * (1 - q)
\* degrees about its centre and scaled by the factor q about the same centre,
\* in a frame of unchanged size, and cross-blended with clip A's frame with
\* weight q on B and 1 - q on A.
C23_RotateFadeRotatesAndScales ==
    (op # "none" /\ raised = "") =>
        \A k \in DOMAIN result_clips :
            LET c == result_clips[k]
            IN  c.kind = "rotate-fade" =>
                    \A t \in 0..(c.duration - 1) :
                        LET A == Pixel(c.a, SampleTimeA(clips[c.a].duration, c.d, t))
                            B == Pixel(c.b, t)
                            r == RotateEffect(clips, c, t)
                        IN  t < c.d =>
                                /\ r.rot_mat.angle * c.d = 90 * (c.d - t) * r.rot_mat.den
                                /\ r.rot_mat.scale * c.d = t * r.rot_mat.den
                                /\ 2 * Abs(c.d * r.centre - (A * (c.d - t) + B * t)) <= c.d

\* C23 witness: half-way through a 2 s rotate-fade clip B is turned by 45
\* degrees and shown at half its size.
C23_Witness ==
    /\ op # "none" /\ raised = ""
    /\ \E k \in DOMAIN result_clips :
          LET c == result_clips[k]
          IN  /\ c.kind = "rotate-fade" /\ c.d = 2
              /\ RotateEffect(clips, c, 1).rot_mat = [angle |-> 90, scale |-> 1, den |-> 2]
              /\ RotateEffect(clips, c, 1).blended

\* C24: flash transition: for q < 0.5 the frame is clip A's frame blended
\* with white at white weight 2q, for q >= 0.5 clip B's frame blended with
\* white at white weight 2 - 2q; the frame at q = 0 is clip A's sampled frame
\* and the white weight reaches 1 exactly at q = 0.5, from both sides.
C24_FlashWhiteWeights ==
    (op # "none" /\ raised = "") =>
        \A k \in DOMAIN result_clips :
            LET c == result_clips[k]
            IN  c.kind = "flash" =>
                    /\ \A t \in 0..(c.duration - 1) :
                          LET A == Pixel(c.a, SampleTimeA(clips[c.a].duration, c.d, t))
                              B == Pixel(c.b, t)
                              f == FlashEffect(clips, c, t)
                          IN  t < c.d =>
                                /\ 2 * t < c.d =>
                                      2 * Abs(c.d * f - (A * (c.d - 2 * t) + 255 * 2 * t))
                                          <= c.d
                                /\ 2 * t >= c.d =>
                                      2 * Abs(c.d * f - (B * (2 * t - c.d)
                                                         + 255 * (2 * c.d - 2 * t))) <= c.d
                                /\ t = 0 => f = A
                                /\ 2 * t = c.d => f = 255
                    \* progress in half steps of the time unit: q = j / (2 * c.d)
                    /\ \A j \in 0..(2 * c.d - 1) :
                          LET white == FlashWhiteIntensity(j, 2 * c.d)
                          IN  /\ white >= 0 /\ white <= 2 * c.d
                              /\ white = 2 * c.d <=> j = c.d
                              /\ j < c.d => white = 2 * j
                              /\ j >= c.d => white = 4 * c.d - 2 * j
                              /\ FlashFrame(40, 90, j, 2 * c.d) = 255 <=> j = c.d
                    /\ \A j \in 1..(c.d - 1) :
                          FlashWhiteIntensity(c.d - j, 2 * c.d)
                              = FlashWhiteIntensity(c.d + j, 2 * c.d)

\* C24 witness: a 2 s flash: clip A's frame at t = 0, full white at t = 1
\* (q = 0.5), clip B's own frame at t = 2.
C24_Witness ==
    /\ op # "none" /\ raised = ""
    /\ \E k \in DOMAIN result_clips :
          LET c == result_clips[k]
          IN  /\ c.kind = "flash" /\ c.d = 2 /\ c.duration = 3
              /\ FlashEffect(clips, c, 0) = Pixel(c.a, SampleTimeA(clips[c.a].duration, 2, 0))
              /\ FlashEffect(clips, c, 0) # 255
              /\ FlashEffect(clips, c, 1) = 255
              /\ FlashEffect(clips, c, 2) = Pixel(c.b, 2)

\* C30 as stated: the blinds cover the whole frame: for every frame height
\* h >= 1 every row index in [0, h) belongs to one of the 20 strips, so that as
\* q approaches 1 every row of the result is clip B's row and no row still
\* shows clip A when the window ends.
C30_BlindsCoverWholeFrame ==
    blinds_frame.rendered =>
        /\ blinds_frame.blind >= 0
        \* q = 1 - 1/(2N): the last blind is fully open from here on
        /\ BlindsRowWeight(blinds_h, blinds_frame.y, 2 * num_blinds - 1, 2 * num_blinds)
              = num_blinds * 2 * num_blinds

\* C26 as stated: for every transition kind, every transition duration and
\* every t in the overlap window, the time clipA.duration - duration + t at
\* which clip A is sampled lies within [0, clipA.duration], also when the
\* transition lasts longer than clip A, and the window [0, duration) ends
\* within clip B's own duration.
C26_SampleTimesInRange ==
    (op # "none" /\ raised = "") =>
        \A i \in DOMAIN result_clips :
            LET c == result_clips[i]
            IN  c.kind # "image" =>
                    /\ \A t \in 0..(Min2(c.d, c.duration) - 1) :
                          /\ GetFrame(clips, c, t).ta >= 0
                          /\ GetFrame(clips, c, t).ta <= clips[c.a].duration
                    /\ c.d <= clips[c.b].duration

\* C29 as stated: apply_transitions_to_clips leaves its arguments unchanged and
\* keeps the shape of the clip sequence: after the call the clips list and the
\* caller's custom_transitions list hold the elements they held before, the
\* returned list is as long as clips, its first element is the original first
\* clip, and a list of fewer than 2 clips is returned as it is.
C29_ArgumentsUnchanged ==
    [][ op' = "apply_transitions_to_clips" =>
            /\ clips' = clips
            /\ custom_transitions' = custom_transitions
            /\ Len(result_clips') = Len(clips)
            /\ (Len(clips) >= 1 => result_clips'[1] = clips[1])
            /\ (Len(clips) < 2 => result_clips' = clips) ]_vars

(***************************************************************************)
(* Claims about create_video                                               *)
(***************************************************************************)

\* the boundaries of the stitched list at which a transition was blended
BlendedBoundaries == {i \in DOMAIN result_clips : result_clips[i].kind # "image"}

\* C3 as stated: adjacent clips share the overlap window, so the concatenated
\* visual duration of the N clips is the sum of the clip durations minus the
\* transition duration for each blended boundary (4 s and 3 s with a 1 s
\* crossfade give 6 s).
C3_OverlapShortensTotal ==
    (op \in {"stitched", "written"}) =>
        final_clip.concat_duration =
            SumDurations(clips) - transition_duration * Cardinality(BlendedBoundaries)

\* the time at which the last clip's audio track ends on the output timeline:
\* the start of the last concatenated clip plus the length of its audio
LastAudioEnd ==
    (ConcatDuration(result_clips) - result_clips[Len(result_clips)].duration)
        + clips[Len(clips)].audio_duration

\* C10: after the concatenation and padding step the final visual duration is
\* at least the end time of the last clip's audio track on the output timeline,
\* and when a freeze-frame padding segment was appended it equals that time.
C10_AudioNeverTruncated ==
    (op \in {"stitched", "written"} /\ clips[Len(clips)].has_audio) =>
        /\ final_clip.duration >= LastAudioEnd
        /\ (final_clip.padded => final_clip.duration = LastAudioEnd)

\* C10 witness: three clips stitched with blended boundaries, the last one
\* carrying a 6 s narration that ends exactly with the video.
C10_Witness ==
    /\ op = "stitched"
    /\ Len(clips) = 3
    /\ clips[3].has_audio /\ clips[3].audio_duration = 6
    /\ BlendedBoundaries = {2, 3}
    /\ transition_duration = 1
    /\ final_clip.duration = LastAudioEnd

\* C25 as stated: in the stitched output of two clips joined by a transition
\* of duration d > 0 each instant of clip A's timeline is shown at most once:
\* the final d seconds of clip A that are blended into the head of the
\* transition clip are not also played unblended before the boundary.
C25_ClipAInstantsShownOnce ==
    (op \in {"stitched", "written"}) =>
        \A i \in 2..Len(result_clips) :
            LET c == result_clips[i]
                before == result_clips[i - 1]
            IN  (c.kind # "image" /\ c.d > 0) =>
                    \A t \in 0..(Min2(c.d, c.duration) - 1) :
                        LET s == SampleTimeA(clips[c.a].duration, c.d, t)
                        IN  /\ GetFrame(clips, c, t).a = i - 1
                            /\ GetFrame(clips, c, t).ta = s
                            /\ \A u \in 0..(before.duration - 1) :
                                  GetFrame(clips, before, u) # ImageFrame(i - 1, s)

\* C27 as stated: whenever create_video blends clip i-1 with clip i, the
\* frames of the two clips have the same width and height, also when no
\* video_resolution is supplied and the source images differ in size.
C27_BlendedFramesSameSize ==
    (op \in {"stitched", "written"}) =>
        \A i \in BlendedBoundaries :
            /\ result_clips[i].a = i - 1 /\ result_clips[i].b = i
            /\ clip_sizes[i - 1] = clip_sizes[i]

\* C11 as stated: when write_videofile raises inside create_video the exception
\* is propagated and, before it reaches the caller, close() has been called on
\* every clip create_clip produced for this render, also when the working list
\* was replaced by blended clips.
C11_EncoderFailureClosesClips ==
    (op = "failed" /\ raised = "EncoderError") =>
        \A i \in DOMAIN clips : clips[i] \in closed

(***************************************************************************)
(* Claims about the frame transformer                                      *)
(***************************************************************************)

\* C8 as stated: at every time t where the interpolated offset (dx, dy) is
\* nonzero, the scale actually applied to the frame is at least
\* max(1 + 2|dx|, 1 + 2|dy|), for every scale range and every curve.
C8_BorderSafety ==
    (frame.rendered /\ (frame.current_x # 0 \/ frame.current_y # 0)) =>
        /\ frame.scale_applied >= (10000 + 2 * Abs(frame.current_x)) * 10000
        /\ frame.scale_applied >= (10000 + 2 * Abs(frame.current_y)) * 10000

\* C16 as stated: at elapsed time t the scale and the offsets are interpolated
\* at curve(p) with p = clamp(t / duration, 0, 1), p = 1 when duration <= 0,
\* so that p stays inside [0, 1] for every t, in process_frame and in
\* make_frame alike.
C16_ProgressClamped ==
    /\ frame.rendered =>
          /\ frame.progress >= 0 /\ frame.progress <= 100
          /\ frame.progress =
                IF anim_duration <= 0 THEN 100
                ELSE Min2(100, Max2(0, (100 * frame.t) \div anim_duration))
          /\ frame.current_scale =
                ScaleOf(animation_params)[1] * 100
                + (ScaleOf(animation_params)[2] - ScaleOf(animation_params)[1])
                  * frame.curve_value
    /\ (made_frame.rendered /\ ~made_frame.static) =>
          /\ made_frame.progress >= 0 /\ made_frame.progress <= 100
          /\ made_frame.progress =
                IF anim_duration <= 0 THEN 100
                ELSE Min2(100, Max2(0, (100 * made_frame.t) \div anim_duration))
          /\ made_frame.current_scale =
                ScaleOf(anim_clip.settings)[1] * 100
                + (ScaleOf(anim_clip.settings)[2] - ScaleOf(anim_clip.settings)[1])
                  * made_frame.curve_progress

\* C17: every curve of animation_curves other than the elastic one takes the
\* value 0 at progress 0 and the value 1 at progress 1.
C17_CurveEndpoints ==
    (made_frame.rendered /\ ~made_frame.static
        /\ anim_clip.settings.curve \in CurveNames \ {"elastic"}) =>
        /\ (made_frame.progress = 0 => made_frame.curve_progress = 0)
        /\ (made_frame.progress = 100 => made_frame.curve_progress = 100)

\* C17 witness: the last frame of a clip animated along the bounce curve.
C17_Witness ==
    /\ made_frame.rendered /\ ~made_frame.static
    /\ anim_clip.settings.curve = "bounce"
    /\ anim_duration = 4 /\ made_frame.t = 4
    /\ made_frame.progress = 100
    /\ made_frame.curve_progress = 100

C19_MissingKeysStatic ==
    (preset_name = "" /\ ~animation_params.has_scale /\ ~animation_params.has_position) =>
        /\ frame.rendered =>
              /\ frame.current_scale = 10000
              /\ frame.current_x = 0 /\ frame.current_y = 0
              /\ ~frame.scaled /\ ~frame.translated
        /\ anim_clip.built => anim_clip.raised = ""
        /\ made_frame.rendered =>
              /\ made_frame.current_scale = 10000
              /\ made_frame.current_pos_x = 0 /\ made_frame.current_pos_y = 0

\* C19 witness: a dict holding only the elastic curve, rendered by both
\* transformers half-way through a 2 s clip.
C19_Witness ==
    /\ preset_name = ""
    /\ ~animation_params.has_scale /\ ~animation_params.has_position
    /\ animation_params.curve = "elastic"
    /\ anim_duration = 2
    /\ frame.rendered /\ frame.t = 1 /\ frame.curve_value = 68
    /\ made_frame.rendered /\ made_frame.t = 1 /\ made_frame.current_scale = 10000

\* C21 as stated: the frame transform scales about the image centre and then
\* translates by (dx * canvasWidth, dy * canvasHeight): for every scale and
\* offset the centre of the source image is sent to the canvas centre plus
\* (dx * canvasWidth, dy * canvasHeight), by the combined matrix M of
\* make_frame and by the two warps of process_frame alike.
C21_CentreMapsToCanvasCentre ==
    /\ (made_frame.rendered /\ ~made_frame.static) =>
          \A img \in ImageSizes, canvas \in CanvasSizes :
              /\ WarpPoint(MakeFrameMatrix(img, canvas, made_frame.current_scale,
                                           made_frame.current_pos_x), img)
                    = 10000 * canvas + 2 * canvas * made_frame.current_pos_x
              /\ WarpPoint(MakeFrameMatrix(img, canvas, made_frame.current_scale,
                                           made_frame.current_pos_y), img)
                    = 10000 * canvas + 2 * canvas * made_frame.current_pos_y
    /\ frame.rendered =>
          \A w \in CanvasSizes :
              /\ ProcessFramePoint(frame, w, frame.current_x, w)
                    = 100000000 * w + 20000 * frame.current_x * w
              /\ ProcessFramePoint(frame, w, frame.current_y, w)
                    = 100000000 * w + 20000 * frame.current_y * w

(***************************************************************************)
(* Claims about the controller's clip cache                                *)
(***************************************************************************)

\* C6 as stated: after the item's animation changed, generate_clip and
\* is_clip_generated never take the clip rendered under the old animation for
\* the item's clip, even if that file still exists: whenever a call finds the
\* item's clip generated, the item's clip on disk was rendered under the item's
\* present animation.
C6_StaleClipNotReused ==
    (last_call.op \in {"generate_clip", "is_clip_generated"} /\ last_call.hit) =>
        LET i == last_call.item
            asset == disk[ClipFilepath(i)]
        IN  (asset.exists /\ asset.image = ImagePath(i)) =>
                asset.animation = item_animation[i]

\* C7: generate_clip called again for an item whose animation is unchanged
\* since the previous call and whose clip file is still present returns the
\* path the previous call returned and does not call preview_clip.
C7_RepeatedGenerateIsCached ==
    [][ (/\ calls' = calls + 1
         /\ last_call'.op = "generate_clip"
         /\ last_returned[last_call'.item].path # ""
         /\ last_returned[last_call'.item].animation = item_animation[last_call'.item]
         /\ disk[last_returned[last_call'.item].path].exists)
        => (/\ last_call'.raised = ""
            /\ last_call'.ret = last_returned[last_call'.item].path
            /\ ~last_call'.rendered
            /\ disk' = disk) ]_vars

\* C7 witness: the second generate_clip of an item has just returned the path
\* of the first, from the cache.
C7_Witness ==
    /\ calls = 2
    /\ last_call.op = "generate_clip"
    /\ last_call.item = 1
    /\ last_call.hit /\ ~last_call.rendered
    /\ last_call.ret = "output/video/x_clip.mp4"
    /\ disk["output/video/x_clip.mp4"].image = "a/x.png"
    /\ generated_clips["b/x.png"] = ""

\* C28 as stated: two items with different image paths never share a cached
\* clip asset: the clip path generate_clip returns for item X is never the
\* path returned, reused or overwritten for an item Y with a different
\* image_path (two images of the same file name in different directories).
C28_ClipAssetsNotShared ==
    /\ \A x \in CtlItems, y \in CtlItems :
          (/\ ImagePath(x) # ImagePath(y)
           /\ last_returned[x].path # ""
           /\ last_returned[y].path # "") =>
              last_returned[x].path # last_returned[y].path
    /\ (last_call.op = "generate_clip" /\ last_call.raised = "") =>
          disk[last_call.ret].image = ImagePath(last_call.item)

(***************************************************************************)
(* Claims about the empty list                                             *)
(***************************************************************************)

\* C15: an empty list is rejected before any rendering work begins.
\* create_video raises ValueError with no clip created, the output directory
\* as it was and no transition applied; create_composite_transition raises
\* ValueError; generate_video raises ValueError and leaves the clip cache, the
\* clip files and last_video_path as they were.
C15_EmptyListRejected ==
    [][ /\ (op = "none" /\ items = <<>>
                /\ op' \notin {"none", "create_composite_transition"}) =>
            /\ op' = "failed" /\ raised' = "ValueError"
            /\ clips' = <<>> /\ working_clips' = <<>> /\ closed' = {}
            /\ result_clips' = <<>> /\ final_clip' = NoFinalClip
            /\ output_dir_exists' = output_dir_exists
        /\ (op = "none" /\ clips = <<>> /\ op' = "create_composite_transition") =>
            /\ raised' = "ValueError"
            /\ result_clips' = <<>>
        /\ (calls' = calls + 1 /\ last_call'.op = "generate_video"
                /\ last_call'.items = <<>>) =>
            /\ last_call'.raised = "ValueError"
            /\ ~last_call'.rendered
            /\ UNCHANGED <<generated_clips, disk, last_returned, last_video_path>>
      ]_vars

\* C15 witness: create_video has rejected the empty list, the output
\* directory still missing, and generate_video has rejected it as well.
C15_Witness ==
    /\ items = <<>>
    /\ op = "failed" /\ raised = "ValueError"
    /\ ~output_dir_exists
    /\ clips = <<>>
    /\ last_call.op = "generate_video" /\ last_call.items = <<>>
    /\ last_call.raised = "ValueError"
    /\ last_video_path = ""

====
